---- MODULE Spec2Model ----
(***************************************************************************)
(* A model of the ACP session runtime of jupyter-ai-acp-client:            *)
(* JaiAcpClient (default_acp_client.py), PermissionManager                 *)
(* (permission_manager.py), ToolCallManager (tool_call_manager.py) and the *)
(* tool-call state functions (tool_call_renderer.py); and of               *)
(* TerminalManager (terminal_manager.py).                                  *)
(*                                                                         *)
(* Python values are represented as follows.  A string the code inspects   *)
(* (titles, paths, option kinds) is a sequence of one-character strings;   *)
(* an opaque identifier (session id, tool-call id, option id, kind,        *)
(* status) is a TLA+ string.  None is NoneS for the former, None for the   *)
(* latter and 0 for message ids and object references.  Objects with       *)
(* identity (ToolCallState instances) live in the heap `objs`.  A byte is   *)
(* a number in 0..255.  An Optional[int] (output_byte_limit, returncode,   *)
(* exit_code) is <<>> for None and <<n>> for the integer n.                *)
(***************************************************************************)
EXTENDS Integers, Sequences, FiniteSets, TLC

VARIABLES
    connection,   \* JaiAcpClient._connection_future: "pending" | "ready" | "failed"
    personas,     \* keys of JaiAcpClient._personas_by_session
    calls,        \* the prompt_and_reply invocations and where each one stands
    locked,       \* _prompt_locks_by_session[s].locked()
    waiters,      \* _prompt_locks_by_session[s]._waiters, in FIFO order
    isWriting,    \* persona.awareness local state field "isWriting"
    pending,      \* PermissionManager._pending: key -> request (0: no entry)
    futures,      \* the asyncio.Future created by each request_permission call
    requests,     \* the request_permission invocations and where each one stands
    sessions,     \* ToolCallManager._sessions
    objs,         \* heap of ToolCallState instances
    msgs,         \* persona.ychat: the chat messages of each session's persona
    updates,      \* the number of session/update notifications received
    commands,     \* persona.acp_slash_commands of each session's persona
    terminals,    \* TerminalManager._terminals: terminal id -> info.session_id
    processes,    \* the subprocess of each terminal: "none" | "running" | "exited"
    tasks,        \* info._output_task of each terminal, the reader of its output
    creates,      \* the create_terminal invocations and where each one stands
    releases,     \* the release_terminal invocations and where each one stands
    infos,        \* the TerminalInfo of each terminal: buffer, limit, exit status
    returncodes,  \* process.returncode of each terminal's subprocess
    waiting,      \* the calls suspended in `await info.process.wait()`, per terminal
    received,     \* every byte the reader task of each terminal has read so far
    cleanups,     \* the cleanup_session invocations and where each one stands
    _subprocess_future,  \* BaseAcpPersona._subprocess_future of each persona class
    _client_future,      \* BaseAcpPersona._client_future of each persona class
    agent_subprocess,    \* the agent subprocess of each persona class
    client,              \* the JaiAcpClient of each persona class and its connection
    instances,           \* the BaseAcpPersona instances and where each one stands
    last          \* the call that ran last, with what it returned or raised

\* The state of JaiAcpClient, its personas and its managers of permissions
\* and tool calls.
clientVars == <<connection, personas, calls, locked, waiters, isWriting, pending,
                futures, requests, sessions, objs, msgs, updates, commands>>

\* The state of TerminalManager and of what it spawned.
terminalVars == <<terminals, processes, tasks, creates, releases, infos, returncodes,
                  waiting, received, cleanups>>

\* The state of the persona classes and of their instances.
personaVars == <<_subprocess_future, _client_future, agent_subprocess, client, instances>>

vars == <<clientVars, terminalVars, personaVars, last>>

-----------------------------------------------------------------------------
(* Bounds of the model *)

MaxPrompts == 2
MaxRequests == 2
MaxChunks == 1

\* Spec, the turn of prompt_and_reply: every prompt_and_reply call, TurnRequests
\* permission requests, TurnUpdates session/update notifications.
TurnRequests == 1
TurnUpdates == 2

\* PermSpec, the permission flow: every request_permission call, PermPrompts
\* prompt_and_reply calls, PermUpdates session/update notifications.
PermPrompts == 1
PermUpdates == 1

\* UpdateSpec, the handling of session/update: MaxUpdates notifications.
MaxUpdates == 3

\* TermSpec, the terminals: MaxCreates create_terminal calls and MaxReleases
\* release_terminal calls, which may all overlap.
MaxCreates == 2
MaxReleases == 2

\* CleanupSpec, cleanup_session: MaxCleanups cleanup_session calls.
MaxCleanups == 1

\* OutputSpec, the output of one terminal: the reader task reads at most
\* MaxOutput bytes.
MaxOutput == 3

\* The number of persona instances that are constructed.
MaxInstances == 3

\* terminal_manager.py: the ceiling on the terminals one manager tracks
MAX_TERMINALS == 50

SessionIds == <<"s1", "s2">>
Sessions == {SessionIds[n] : n \in 1..Len(SessionIds)}
ToolCallIds == {"t1", "t2"}
PromptCalls == 1..MaxPrompts
Requests == 1..MaxRequests

\* The terminal ids, str(uuid.uuid4()): the n-th terminal that is spawned gets id n.
TerminalIds == 1..(MAX_TERMINALS + MaxCreates)

-----------------------------------------------------------------------------
(* Python values *)

None == "<None>"
NoneS == <<"<None>">>
NoneL == <<NoneS>>
NoneOpts == <<[option_id |-> None, title |-> NoneS, description |-> NoneS]>>

IsSpace(c) == c \in {" ", "\t", "\n"}

\* needle in hay
Contains(needle, hay) ==
    \E i \in 1..(Len(hay) - Len(needle) + 1) :
        SubSeq(hay, i, i + Len(needle) - 1) = needle

\* s.rsplit("/", 1)[-1]
AfterLastSlash(s) ==
    IF \E i \in 1..Len(s) : s[i] = "/"
    THEN LET k == CHOOSE i \in 1..Len(s) :
                      s[i] = "/" /\ \A j \in (i + 1)..Len(s) : s[j] # "/"
         IN SubSeq(s, k + 1, Len(s))
    ELSE s

\* s.split()
RECURSIVE Split(_)
Split(s) ==
    IF s = <<>> THEN <<>>
    ELSE IF IsSpace(s[1]) THEN Split(Tail(s))
    ELSE LET n == IF \E i \in 1..Len(s) : IsSpace(s[i])
                  THEN (CHOOSE i \in 1..Len(s) :
                            IsSpace(s[i]) /\ \A j \in 1..(i - 1) : ~IsSpace(s[j])) - 1
                  ELSE Len(s)
         IN <<SubSeq(s, 1, n)>> \o Split(SubSeq(s, n + 1, Len(s)))

\* " ".join(words)
RECURSIVE Join(_)
Join(words) ==
    IF words = <<>> THEN <<>>
    ELSE IF Len(words) = 1 THEN words[1]
    ELSE words[1] \o <<" ">> \o Join(Tail(words))

-----------------------------------------------------------------------------
(* tool_call_renderer.py *)

Reading == <<"R", "e", "a", "d", "i", "n", "g">>
Editing == <<"E", "d", "i", "t", "i", "n", "g">>
Deleting == <<"D", "e", "l", "e", "t", "i", "n", "g">>
Moving == <<"M", "o", "v", "i", "n", "g">>
Searching == <<"S", "e", "a", "r", "c", "h", "i", "n", "g">>
RunningCommand == <<"R", "u", "n", "n", "i", "n", "g", " ", "c", "o", "m", "m", "a", "n", "d">>
Thinking == <<"T", "h", "i", "n", "k", "i", "n", "g">>
Fetching == <<"F", "e", "t", "c", "h", "i", "n", "g">>
SwitchingMode == <<"S", "w", "i", "t", "c", "h", "i", "n", "g", " ", "m", "o", "d", "e">>
Working == <<"W", "o", "r", "k", "i", "n", "g">>
Ellipsis == <<".", ".", ".">>

kind_verbs(kind) ==
    CASE kind = "read" -> Reading
      [] kind = "edit" -> Editing
      [] kind = "delete" -> Deleting
      [] kind = "move" -> Moving
      [] kind = "search" -> Searching
      [] kind = "execute" -> RunningCommand
      [] kind = "think" -> Thinking
      [] kind = "fetch" -> Fetching
      [] kind = "switch_mode" -> SwitchingMode
      [] OTHER -> Working

\* Python truthiness of an optional value
TruthyId(x) == x # None /\ x # ""
TruthyS(x) == x # NoneS /\ x # <<>>
TruthyL(x) == x # NoneL /\ x # <<>>

_generate_title(kind, locations) ==
    LET verb == kind_verbs(IF TruthyId(kind) THEN kind ELSE "")
    IN IF TruthyL(locations)
       THEN verb \o <<" ">> \o AfterLastSlash(locations[1])
       ELSE verb \o Ellipsis

ShortenWord(word) ==
    IF Len(word) >= 1 /\ word[1] = "/" /\ Contains(<<"/">>, Tail(word))
    THEN AfterLastSlash(word)
    ELSE word

\* The title kept as the agent sent it.
_shorten_title_Verbatim(title) == title

_shorten_title(title) ==
    LET words == Split(title)
    IN Join([i \in 1..Len(words) |-> ShortenWord(words[i])])

\* A ToolCallState: the dataclass fields, then the attributes that
\* request_permission sets on the instance.
ToolCallState(id, title, kind, status, raw_output, locations) ==
    [tool_call_id |-> id, title |-> title, kind |-> kind, status |-> status,
     raw_output |-> raw_output, locations |-> locations,
     permission_options |-> NoneOpts, permission_status |-> None,
     session_id |-> None, diffs |-> None, selected_option_id |-> None]

\* a heap slot that holds no object
NoObj == [free |-> TRUE]

\* The heap has a slot for every ToolCallState that can be referenced at once:
\* one per (session, tool-call id), one per request_permission invocation that
\* still holds a replaced instance, and the one being constructed.
Slots == 1..(Cardinality(Sessions) * Cardinality(ToolCallIds) + MaxRequests + 1)

Alloc(heap) == CHOOSE o \in Slots : heap[o] = NoObj /\ \A p \in 1..(o - 1) : heap[p] # NoObj

\* dict[str, ToolCallState] in insertion order: a sequence of <<key, reference>>
DictGet(d, id) ==
    IF \E i \in 1..Len(d) : d[i][1] = id
    THEN d[CHOOSE i \in 1..Len(d) : d[i][1] = id][2]
    ELSE 0

DictSet(d, id, ref) ==
    IF \E i \in 1..Len(d) : d[i][1] = id
    THEN [i \in 1..Len(d) |-> IF d[i][1] = id THEN <<id, ref>> ELSE d[i]]
    ELSE Append(d, <<id, ref>>)

\* Both update functions return the dict and the heap they leave behind.
\* The start event ignored when the id has a record already.
update_tool_call_from_start_KeepExisting(tool_calls, heap, tool_call_id, title, kind, locations) ==
    IF DictGet(tool_calls, tool_call_id) # 0
    THEN [tool_calls |-> tool_calls, heap |-> heap]
    ELSE LET o == Alloc(heap)
         IN [tool_calls |-> DictSet(tool_calls, tool_call_id, o),
             heap |-> [heap EXCEPT ![o] =
                          ToolCallState(tool_call_id, title, kind, "in_progress",
                                        None, locations)]]

update_tool_call_from_start(tool_calls, heap, tool_call_id, title, kind, locations) ==
    LET resolved ==
            IF ~TruthyS(title) /\ (TruthyId(kind) \/ TruthyL(locations))
            THEN _generate_title(kind, locations)
            ELSE IF ~TruthyS(title) THEN Working \o Ellipsis
            ELSE _shorten_title(title)
        o == Alloc(heap)
    IN [tool_calls |-> DictSet(tool_calls, tool_call_id, o),
        heap |-> [heap EXCEPT ![o] =
                     ToolCallState(tool_call_id, resolved, kind, "in_progress",
                                   None, locations)]]

update_tool_call_from_progress(tool_calls, heap, tool_call_id, title, kind, status, raw_output, locations) ==
    IF DictGet(tool_calls, tool_call_id) = 0
    THEN LET shortened == IF TruthyS(title) THEN _shorten_title(title) ELSE <<>>
             resolved ==
                 IF ~TruthyS(shortened) /\ (TruthyId(kind) \/ TruthyL(locations))
                 THEN _generate_title(kind, locations)
                 ELSE IF ~TruthyS(shortened) THEN Working \o Ellipsis
                 ELSE shortened
             o == Alloc(heap)
         IN [tool_calls |-> DictSet(tool_calls, tool_call_id, o),
             heap |-> [heap EXCEPT ![o] =
                          ToolCallState(tool_call_id, resolved, kind,
                                        IF TruthyId(status) THEN status ELSE "in_progress",
                                        raw_output, locations)]]
    ELSE LET o == DictGet(tool_calls, tool_call_id)
             tc == heap[o]
         IN [tool_calls |-> tool_calls,
             heap |-> [heap EXCEPT ![o] =
                 [tc EXCEPT
                    !.title = IF title # NoneS THEN _shorten_title(title) ELSE @,
                    !.kind = IF kind # None THEN kind ELSE @,
                    !.status = IF status # None THEN status ELSE @,
                    !.raw_output = IF raw_output # None THEN raw_output ELSE @,
                    !.locations = IF locations # NoneL THEN locations ELSE @]]]

\* dataclasses.asdict sees the declared fields only
DeclaredFields == {"tool_call_id", "title", "kind", "status", "raw_output", "locations"}

FieldIsNone(tc, f) ==
    CASE f = "title" -> tc.title = NoneS
      [] f = "locations" -> tc.locations = NoneL
      [] OTHER -> tc[f] = None

SerializeOne(tc) ==
    [f \in {g \in DeclaredFields : ~FieldIsNone(tc, g)} |-> tc[f]]

serialize_tool_calls(tool_calls, heap) ==
    [i \in 1..Len(tool_calls) |-> SerializeOne(heap[tool_calls[i][2]])]

-----------------------------------------------------------------------------
(* tool_call_manager.py *)

\* The values of the awareness field "isWriting": never set, True, False, or
\* the id of the message being written.
Unset == [unset |-> TRUE]
True == [bool |-> TRUE]
False == [bool |-> FALSE]
MessageRef(id) == [message_id |-> id]

NoSession == [absent |-> TRUE]
SessionState == [tool_calls |-> <<>>, message_id |-> 0]

_ensure_session(ss, s) ==
    IF ss[s] = NoSession THEN [ss EXCEPT ![s] = SessionState] ELSE ss

get_message_id(ss, s) ==
    IF ss[s] # NoSession THEN ss[s].message_id ELSE 0

\* The tool calls cleared and the message of the previous turn kept.
reset_KeepMessage(ss, s) ==
    [ss EXCEPT ![s] = [tool_calls |-> <<>>, message_id |-> get_message_id(ss, s)]]

\* The state of every session replaced, not only that of s.
reset_EverySession(ss, s) == [o \in DOMAIN ss |-> SessionState]

reset(ss, s) == [ss EXCEPT ![s] = SessionState]

serialize(ss, heap, s) ==
    IF ss[s] = NoSession THEN <<>> ELSE serialize_tool_calls(ss[s].tool_calls, heap)

\* A chat message of persona.ychat; its id is its position in the chat.
NoMetadata == [absent |-> TRUE]
NewMessage == [body |-> <<>>, metadata |-> NoMetadata, mentions |-> 0]

\* A message added whether or not the session has one.
get_or_create_message_AlwaysNew(ss, ms, iw, s) ==
    LET ss1 == _ensure_session(ss, s)
        message_id == Len(ms[s]) + 1
    IN [sessions |-> [ss1 EXCEPT ![s].message_id = message_id],
        msgs |-> [ms EXCEPT ![s] = Append(@, NewMessage)],
        isWriting |-> [iw EXCEPT ![s] = MessageRef(message_id)],
        message_id |-> message_id]

\* Returns the session table, the chat, the awareness field and the message id.
get_or_create_message(ss, ms, iw, s) ==
    LET ss1 == _ensure_session(ss, s)
    IN IF ss1[s].message_id # 0
       THEN [sessions |-> ss1, msgs |-> ms, isWriting |-> iw,
             message_id |-> ss1[s].message_id]
       ELSE LET message_id == Len(ms[s]) + 1
            IN [sessions |-> [ss1 EXCEPT ![s].message_id = message_id],
                msgs |-> [ms EXCEPT ![s] = Append(@, NewMessage)],
                isWriting |-> [iw EXCEPT ![s] = MessageRef(message_id)],
                message_id |-> message_id]

\* Returns the chat.
_flush_to_message(ss, heap, ms, s) ==
    IF ss[s] = NoSession \/ ss[s].message_id = 0
    THEN ms
    ELSE IF ss[s].message_id \in 1..Len(ms[s])
         THEN [ms EXCEPT ![s][ss[s].message_id].metadata =
                  [tool_calls |-> serialize_tool_calls(ss[s].tool_calls, heap)]]
         ELSE ms

-----------------------------------------------------------------------------
(* permission_manager.py *)

Keys == Sessions \X ToolCallIds

\* an asyncio.Future that is not done
NewFuture == [done |-> FALSE, result |-> None]

reject == <<"r", "e", "j", "e", "c", "t">>

\* The fallback whatever was offered.
_find_reject_option_id_Fallback(options) == "reject_once"

RECURSIVE _find_reject_option_id(_)
_find_reject_option_id(options) ==
    IF options = <<>> THEN "reject_once"
    ELSE IF Contains(reject, options[1].description) THEN options[1].option_id
    ELSE _find_reject_option_id(Tail(options))

\* The entries of every session taken for those of session_id.
reject_all_pending_EverySession(pend, futs, session_id, opts) ==
    LET keys_to_remove == {key \in Keys : pend[key] # 0}
        hit == {pend[key] : key \in {k \in keys_to_remove : ~futs[pend[k]].done}}
    IN [pending |-> [key \in Keys |-> 0],
        futures |-> [i \in Requests |->
                        IF i \in hit
                        THEN [done |-> TRUE, result |-> _find_reject_option_id(opts[i])]
                        ELSE futs[i]],
        rejected |-> Cardinality(hit)]

\* Returns the pending table and the futures; `rejected` is the count returned.
reject_all_pending(pend, futs, session_id, opts) ==
    LET keys_to_remove == {key \in Keys : key[1] = session_id /\ pend[key] # 0}
        hit == {pend[key] : key \in {k \in keys_to_remove : ~futs[pend[k]].done}}
    IN [pending |-> [key \in Keys |-> IF key \in keys_to_remove THEN 0 ELSE pend[key]],
        futures |-> [i \in Requests |->
                        IF i \in hit
                        THEN [done |-> TRUE, result |-> _find_reject_option_id(opts[i])]
                        ELSE futs[i]],
        rejected |-> Cardinality(hit)]

\* The future completed again when it is already done.
resolve_Unguarded(pend, futs, session_id, tool_call_id, option_id) ==
    LET req == pend[<<session_id, tool_call_id>>]
    IN IF req = 0
       THEN [futures |-> futs, ret |-> FALSE]
       ELSE [futures |-> [futs EXCEPT ![req] = [done |-> TRUE, result |-> option_id]],
             ret |-> TRUE]

\* Returns the futures and the value returned.
resolve(pend, futs, session_id, tool_call_id, option_id) ==
    LET req == pend[<<session_id, tool_call_id>>]
    IN IF req = 0 \/ futs[req].done
       THEN [futures |-> futs, ret |-> FALSE]
       ELSE [futures |-> [futs EXCEPT ![req] = [done |-> TRUE, result |-> option_id]],
             ret |-> TRUE]

cleanup(pend, session_id, tool_call_id) ==
    [pend EXCEPT ![<<session_id, tool_call_id>>] = 0]

has_pending(pend, session_id) ==
    \E key \in Keys : key[1] = session_id /\ pend[key] # 0

-----------------------------------------------------------------------------
(* The inputs the environment supplies *)

hello == "hello"
PromptTexts == {hello}

a_py == <<"a", ".", "p", "y">>
nb_b_ipynb == <<"n", "b", "/", "b", ".", "i", "p", "y", "n", "b">>
FileA == [value |-> a_py, type |-> "file"]
NotebookB == [value |-> nb_b_ipynb, type |-> "notebook"]
NoAttachments == <<>>
AttachmentInputs == {NoAttachments, <<FileA, NotebookB>>}

allow_once == <<"a", "l", "l", "o", "w", "_", "o", "n", "c", "e">>
reject_once == <<"r", "e", "j", "e", "c", "t", "_", "o", "n", "c", "e">>
reject_always == <<"r", "e", "j", "e", "c", "t", "_", "a", "l", "w", "a", "y", "s">>
OptAllow == [option_id |-> "allow", name |-> "Allow", kind |-> allow_once]
OptDeny == [option_id |-> "deny", name |-> "Deny", kind |-> reject_once]
OptNever == [option_id |-> "never", name |-> "Never", kind |-> reject_always]
OptionIds == {"allow", "deny"}
TurnOptionIds == {"allow"}

\* The options of a permission request and its tool_call.content, which is None
\* or carries a diff.
PermissionInputs ==
    {[options |-> <<OptAllow, OptNever, OptDeny>>, content |-> None],
     [options |-> <<OptAllow>>, content |-> "diff"]}

Read_path == <<"R", "e", "a", "d", " ", "/", "x", "/", "f">>
x_f == <<"/", "x", "/", "f">>
StartInputs ==
    {[title |-> <<>>, kind |-> "read", locations |-> <<x_f>>],
     [title |-> Read_path, kind |-> None, locations |-> <<>>]}
PermStartInputs == {[title |-> <<>>, kind |-> "read", locations |-> <<x_f>>]}
ProgressInputs ==
    {[title |-> NoneS, kind |-> None, status |-> "completed",
      raw_output |-> None, locations |-> NoneL],
     [title |-> <<>>, kind |-> "", status |-> "in_progress",
      raw_output |-> "out", locations |-> <<>>]}

TurnPermissionInputs == {[options |-> <<OptAllow, OptNever, OptDeny>>, content |-> None]}

\* The sessions that are created and the tool calls that are reported
TurnSessions == {"s1"}
TurnToolCallIds == {"t1"}
PermSessions == {"s1", "s2"}
PermToolCallIds == {"t1"}

\* The tool-call events of UpdateSpec.  A title is empty, holds an absolute
\* path, or holds a one-component path and a relative path after two spaces.
f == <<"f">>
slash_f_a_b == <<"/", "f", " ", " ", "a", "/", "b">>
UpdateStartInputs ==
    {[title |-> <<>>, kind |-> "read", locations |-> <<x_f>>],
     [title |-> <<>>, kind |-> "", locations |-> <<>>],
     [title |-> <<>>, kind |-> "other", locations |-> <<f, x_f>>],
     [title |-> <<>>, kind |-> "execute", locations |-> <<>>],
     [title |-> Read_path, kind |-> "", locations |-> <<>>],
     [title |-> slash_f_a_b, kind |-> "edit", locations |-> <<x_f>>]}

\* The start events of TitleSpec: without a title, of every kind, with and
\* without locations; and with a title of words and paths.
Kinds ==
    {"", "read", "edit", "delete", "move", "search", "execute", "think", "fetch",
     "switch_mode", "other"}
TitleInputs ==
    {[title |-> <<>>, kind |-> k, locations |-> l] :
        k \in Kinds, l \in {<<>>, <<x_f>>, <<f, x_f>>}}
    \cup {[title |-> w, kind |-> "read", locations |-> <<x_f>>] :
             w \in {Read_path, slash_f_a_b, x_f, <<" ">>}}

\* A progress event that supplies nothing, and the events that supply one field,
\* empty or not.
NoProgress ==
    [title |-> NoneS, kind |-> None, status |-> None, raw_output |-> None,
     locations |-> NoneL]
UpdateProgressInputs ==
    {NoProgress}
    \cup {[NoProgress EXCEPT !.title = v] : v \in {<<>>, Read_path}}
    \cup {[NoProgress EXCEPT !.kind = v] : v \in {"", "edit"}}
    \cup {[NoProgress EXCEPT !.status = v] : v \in {"", "completed", "in_progress"}}
    \cup {[NoProgress EXCEPT !.raw_output = v] : v \in {"", "out"}}
    \cup {[NoProgress EXCEPT !.locations = v] : v \in {<<>>, <<x_f>>}}

\* The lists of an available-commands update
CommandInputs == {<<>>, <<"help">>, <<"plan", "review">>}

\* UpdateSpec creates a persona for s1 and none for s2.
UpdateSessions == {"s1"}

hi == <<"h", "i">>
ChunkInputs == {[type |-> "text", text |-> hi], [type |-> "image", text |-> NoneS]}

-----------------------------------------------------------------------------
(* State *)

\* `last` after a call whose result nothing observes
NoResult == [op |-> None]


IdleCall == [pc |-> "idle", session_id |-> None, prompt |-> None,
             attachments |-> NoAttachments, sent |-> <<>>]
\* `notified` records that, while the call was suspended, resolve_permission was
\* called with its key or prompt_and_reply was started for its session.
IdleRequest == [pc |-> "idle", session_id |-> None, tool_call_id |-> None,
                persona |-> FALSE, options |-> <<>>, tc |-> 0, notified |-> FALSE]

Notify(reqs, hit) ==
    [i \in Requests |->
        IF reqs[i].pc = "suspended" /\ i \in hit
        THEN [reqs[i] EXCEPT !.notified = TRUE]
        ELSE reqs[i]]

\* TerminalInfo(process, session_id, output_byte_limit) with the defaults of its
\* other fields; session_id is kept in `terminals`, the process in `processes`
\* and `returncodes`, _output_task in `tasks`.
TerminalInfo(output_byte_limit) ==
    [output_buffer |-> <<>>, output_byte_limit |-> output_byte_limit,
     truncated |-> FALSE, exit_code |-> <<>>, exit_signal |-> NoneS]

\* The subclasses of BaseAcpPersona: each one names the executable of an agent.
AgentClasses == {"PersonaA", "PersonaB"}

Instances == 1..MaxInstances

\* A persona that is not constructed yet.
NoInstance == [class |-> None, pc |-> "absent", session |-> "none"]

ClientInit ==
    /\ connection = "pending"
    /\ personas = {}
    /\ calls = [c \in PromptCalls |-> IdleCall]
    /\ locked = [s \in Sessions |-> FALSE]
    /\ waiters = [s \in Sessions |-> <<>>]
    /\ isWriting = [s \in Sessions |-> Unset]
    /\ pending = [key \in Keys |-> 0]
    /\ futures = [i \in Requests |-> NewFuture]
    /\ requests = [i \in Requests |-> IdleRequest]
    /\ sessions = [s \in Sessions |-> NoSession]
    /\ objs = [o \in Slots |-> NoObj]
    /\ msgs = [s \in Sessions |-> <<>>]
    /\ updates = 0
    /\ commands = [s \in Sessions |-> <<>>]
    /\ creates = [c \in 1..MaxCreates |-> [pc |-> "idle"]]
    /\ releases = [r \in 1..MaxReleases |-> [pc |-> "idle"]]
    /\ waiting = [id \in TerminalIds |-> {}]
    /\ received = [id \in TerminalIds |-> <<>>]
    /\ cleanups = [k \in 1..MaxCleanups |-> [pc |-> "idle"]]
    /\ _subprocess_future = [cls \in AgentClasses |-> None]
    /\ _client_future = [cls \in AgentClasses |-> None]
    /\ agent_subprocess = [cls \in AgentClasses |-> [spawned |-> 0, state |-> "none"]]
    /\ client = [cls \in AgentClasses |-> [created |-> 0, connection |-> "none"]]
    /\ instances = [p \in Instances |-> NoInstance]
    /\ last = NoResult

\* The state after construction: TerminalManager.__init__ leaves _terminals empty.
Init ==
    /\ ClientInit
    /\ terminals = [id \in TerminalIds |-> None]
    /\ processes = [id \in TerminalIds |-> "none"]
    /\ tasks = [id \in TerminalIds |-> "none"]
    /\ infos = [id \in TerminalIds |-> TerminalInfo(<<>>)]
    /\ returncodes = [id \in TerminalIds |-> <<>>]

\* The ToolCallState instances something still refers to.
Referenced(ss, reqs) ==
    UNION {{ss[s].tool_calls[i][2] : i \in 1..Len(ss[s].tool_calls)} :
               s \in {r \in Sessions : ss[r] # NoSession}}
    \cup {reqs[i].tc : i \in Requests}

\* What the garbage collector leaves of the heap.
Collect(heap, ss, reqs) ==
    [o \in Slots |-> IF o \in Referenced(ss, reqs) THEN heap[o] ELSE NoObj]

-----------------------------------------------------------------------------
(* JaiAcpClient._init_connection, create_session *)

InitConnection ==
    /\ connection = "pending"
    /\ \E outcome \in {"ready", "failed"} : connection' = outcome
    /\ last' = NoResult
    /\ UNCHANGED <<personaVars, terminalVars, commands, personas, calls, locked, waiters, isWriting, pending, futures,
                   requests, sessions, objs, msgs, updates>>

CreateSession(s) ==
    /\ connection = "ready"
    /\ s \notin personas
    /\ \E n \in 1..Len(SessionIds) :
           SessionIds[n] = s /\ \A m \in 1..(n - 1) : SessionIds[m] \in personas
    /\ personas' = personas \cup {s}
    /\ last' = NoResult
    /\ UNCHANGED <<personaVars, terminalVars, commands, connection, calls, locked, waiters, isWriting, pending, futures,
                   requests, sessions, objs, msgs, updates>>

-----------------------------------------------------------------------------
(* JaiAcpClient.prompt_and_reply *)

\* The content blocks handed to conn.prompt.
PromptBlocks(prompt, attachments) == <<[type |-> "text", text |-> prompt]>>

\* The lock taken without looking at it.
LockIsFree_Unchecked(s) == TRUE

\* asyncio.Lock.acquire takes the lock at once, without suspending, when it is
\* free and nobody queues for it.
LockIsFree(s) == ~locked[s] /\ waiters[s] = <<>>

\* A waiter resumes when the lock was released and it is first in line.
LockWakesUp(c, s) == ~locked[s] /\ waiters[s] # <<>> /\ Head(waiters[s]) = c

PendingOptions == [i \in Requests |-> requests[i].options]

\* The body of `async with lock` up to the suspension in conn.prompt: the
\* connection future is done once a session exists, so nothing suspends between
\* taking the lock and sending the prompt.
BeginTurn(c, s, prompt, attachments) ==
    /\ connection = "ready"
    /\ locked' = [locked EXCEPT ![s] = TRUE]
    /\ sessions' = reset(sessions, s)
    /\ objs' = Collect(objs, sessions', requests)
    /\ isWriting' = [isWriting EXCEPT ![s] = True]
    /\ calls' = [calls EXCEPT ![c] =
                    [pc |-> "prompt", session_id |-> s, prompt |-> prompt,
                     attachments |-> attachments,
                     sent |-> PromptBlocks(prompt, attachments)]]

PromptStart(c, s, prompt, attachments) ==
    /\ calls[c].pc = "idle"
    /\ \A d \in 1..(c - 1) : calls[d].pc # "idle"
    /\ s \in personas
    /\ LET r == reject_all_pending(pending, futures, s, PendingOptions)
       IN /\ pending' = r.pending
          /\ futures' = r.futures
          /\ last' = [op |-> "reject_all_pending", session_id |-> s, ret |-> r.rejected]
    /\ IF LockIsFree(s)
       THEN /\ BeginTurn(c, s, prompt, attachments)
            /\ UNCHANGED waiters
       ELSE /\ waiters' = [waiters EXCEPT ![s] = Append(@, c)]
            /\ calls' = [calls EXCEPT ![c] =
                            [pc |-> "lock", session_id |-> s, prompt |-> prompt,
                             attachments |-> attachments, sent |-> <<>>]]
            /\ UNCHANGED <<locked, sessions, objs, isWriting>>
    /\ requests' = Notify(requests, {i \in Requests : requests[i].session_id = s})
    /\ UNCHANGED <<personaVars, terminalVars, commands, connection, personas, msgs, updates>>

\* The pending requests of the session rejected once the lock is held, not
\* when the call starts.
PromptAcquire_RejectAtLock(c) ==
    /\ calls[c].pc = "lock"
    /\ LockWakesUp(c, calls[c].session_id)
    /\ waiters' = [waiters EXCEPT ![calls[c].session_id] = Tail(@)]
    /\ BeginTurn(c, calls[c].session_id, calls[c].prompt, calls[c].attachments)
    /\ LET r == reject_all_pending(pending, futures, calls[c].session_id, PendingOptions)
       IN /\ pending' = r.pending
          /\ futures' = r.futures
          /\ last' = [op |-> "reject_all_pending", session_id |-> calls[c].session_id,
                       ret |-> r.rejected]
    /\ UNCHANGED <<personaVars, terminalVars, commands, connection, personas, requests, msgs, updates>>

PromptAcquire(c) ==
    /\ calls[c].pc = "lock"
    /\ LockWakesUp(c, calls[c].session_id)
    /\ waiters' = [waiters EXCEPT ![calls[c].session_id] = Tail(@)]
    /\ BeginTurn(c, calls[c].session_id, calls[c].prompt, calls[c].attachments)
    /\ last' = NoResult
    /\ UNCHANGED <<personaVars, terminalVars, commands, connection, personas, pending, futures, requests, msgs, updates>>

\* The awareness field cleared after the `try` block instead of in `finally`.
ExitTurn_ClearOnReturn(c, outcome) ==
    /\ isWriting' = IF outcome = "returned"
                    THEN [isWriting EXCEPT ![calls[c].session_id] = False]
                    ELSE isWriting
    /\ locked' = [locked EXCEPT ![calls[c].session_id] = FALSE]
    /\ calls' = [calls EXCEPT ![c] =
                    [IdleCall EXCEPT !.pc = "done"]]
    /\ last' = [op |-> "prompt_and_reply", session_id |-> calls[c].session_id,
                 turn |-> TRUE, outcome |-> outcome]

\* The lock released when the turn returns, and kept when it raises or is
\* cancelled.
ExitTurn_LockKeptOnFailure(c, outcome) ==
    /\ isWriting' = [isWriting EXCEPT ![calls[c].session_id] = False]
    /\ locked' = IF outcome = "returned"
                 THEN [locked EXCEPT ![calls[c].session_id] = FALSE]
                 ELSE locked
    /\ calls' = [calls EXCEPT ![c] =
                    [IdleCall EXCEPT !.pc = "done"]]
    /\ last' = [op |-> "prompt_and_reply", session_id |-> calls[c].session_id,
                 turn |-> TRUE, outcome |-> outcome]

\* The `finally` clause and the release of the lock on leaving `async with`.
ExitTurn(c, outcome) ==
    /\ isWriting' = [isWriting EXCEPT ![calls[c].session_id] = False]
    /\ locked' = [locked EXCEPT ![calls[c].session_id] = FALSE]
    /\ calls' = [calls EXCEPT ![c] =
                    [IdleCall EXCEPT !.pc = "done"]]
    /\ last' = [op |-> "prompt_and_reply", session_id |-> calls[c].session_id,
                 turn |-> TRUE, outcome |-> outcome]

\* The return without the update that triggers find_mentions.
PromptReturn_NoMentions(c) ==
    /\ calls[c].pc = "prompt"
    /\ ExitTurn(c, "returned")
    /\ UNCHANGED <<personaVars, terminalVars, commands, connection, personas, waiters, pending, futures, requests,
                   sessions, objs, msgs, updates>>

\* conn.prompt returns; find_mentions is triggered on the turn's message.
PromptReturn(c) ==
    /\ calls[c].pc = "prompt"
    /\ LET s == calls[c].session_id
           message_id == get_message_id(sessions, s)
       IN msgs' = IF message_id # 0 /\ message_id \in 1..Len(msgs[s])
                  THEN [msgs EXCEPT ![s][message_id].mentions = @ + 1]
                  ELSE msgs
    /\ ExitTurn(c, "returned")
    /\ UNCHANGED <<personaVars, terminalVars, commands, connection, personas, waiters, pending, futures, requests,
                   sessions, objs, updates>>

\* conn.prompt raises.
PromptFail(c) ==
    /\ calls[c].pc = "prompt"
    /\ ExitTurn(c, "failed")
    /\ UNCHANGED <<personaVars, terminalVars, commands, connection, personas, waiters, pending, futures, requests,
                   sessions, objs, msgs, updates>>

\* conn.prompt returns and the chat raises while the message is post-processed.
PromptPostFail(c) ==
    /\ calls[c].pc = "prompt"
    /\ get_message_id(sessions, calls[c].session_id) # 0
    /\ ExitTurn(c, "failed")
    /\ UNCHANGED <<personaVars, terminalVars, commands, connection, personas, waiters, pending, futures, requests,
                   sessions, objs, msgs, updates>>

\* The task that runs prompt_and_reply is cancelled, while it queues for the
\* lock or while it awaits conn.prompt.
PromptCancel(c) ==
    /\ \/ /\ calls[c].pc = "lock"
          /\ waiters' = [waiters EXCEPT ![calls[c].session_id] =
                            SelectSeq(@, LAMBDA d : d # c)]
          /\ calls' = [calls EXCEPT ![c] =
                          [IdleCall EXCEPT !.pc = "done"]]
          /\ last' = [op |-> "prompt_and_reply", session_id |-> calls[c].session_id,
                       turn |-> FALSE, outcome |-> "cancelled"]
          /\ UNCHANGED <<isWriting, locked>>
       \/ /\ calls[c].pc = "prompt"
          /\ ExitTurn(c, "cancelled")
          /\ UNCHANGED waiters
    /\ UNCHANGED <<personaVars, terminalVars, commands, connection, personas, pending, futures, requests, sessions,
                   objs, msgs, updates>>

-----------------------------------------------------------------------------
(* ToolCallManager.handle_start, handle_progress; JaiAcpClient.session_update *)

\* Each handler returns the session table, the heap, the chat and the
\* awareness field it leaves behind.
handle_start(ss, heap, ms, iw, s, t, update) ==
    LET ss1 == _ensure_session(ss, s)
        kind_str == IF TruthyId(update.kind) THEN update.kind ELSE None
        locations_paths == IF TruthyL(update.locations) THEN update.locations ELSE NoneL
        r == update_tool_call_from_start(ss1[s].tool_calls, heap, t, update.title,
                                         kind_str, locations_paths)
        g == get_or_create_message([ss1 EXCEPT ![s].tool_calls = r.tool_calls],
                                   ms, iw, s)
    IN [sessions |-> g.sessions, heap |-> r.heap, isWriting |-> g.isWriting,
        msgs |-> _flush_to_message(g.sessions, r.heap, g.msgs, s)]

handle_progress(ss, heap, ms, iw, s, t, update) ==
    LET ss1 == _ensure_session(ss, s)
        kind_str == IF TruthyId(update.kind) THEN update.kind ELSE None
        status_str == IF TruthyId(update.status) THEN update.status ELSE None
        locations_paths == IF TruthyL(update.locations) THEN update.locations ELSE NoneL
        r == update_tool_call_from_progress(ss1[s].tool_calls, heap, t, update.title,
                                            kind_str, status_str, update.raw_output,
                                            locations_paths)
        g == get_or_create_message([ss1 EXCEPT ![s].tool_calls = r.tool_calls],
                                   ms, iw, s)
    IN [sessions |-> g.sessions, heap |-> r.heap, isWriting |-> g.isWriting,
        msgs |-> _flush_to_message(g.sessions, r.heap, g.msgs, s)]

image == <<"<", "i", "m", "a", "g", "e", ">">>
audio == <<"<", "a", "u", "d", "i", "o", ">">>
resource == <<"<", "r", "e", "s", "o", "u", "r", "c", "e", ">">>
content_ == <<"<", "c", "o", "n", "t", "e", "n", "t", ">">>

ChunkText(content) ==
    CASE content.type = "text" -> content.text
      [] content.type = "image" -> image
      [] content.type = "audio" -> audio
      [] content.type = "resource_link" ->
            IF TruthyS(content.text) THEN content.text ELSE resource
      [] content.type = "resource" -> resource
      [] OTHER -> content_

_handle_agent_message_chunk(ss, heap, ms, iw, s, content) ==
    LET g == get_or_create_message(ss, ms, iw, s)
        serialized_tool_calls == serialize(g.sessions, heap, s)
    IN [sessions |-> g.sessions, heap |-> heap, isWriting |-> g.isWriting,
        msgs |-> [g.msgs EXCEPT ![s][g.message_id] =
                     [@ EXCEPT !.body = Append(@, ChunkText(content)),
                               !.metadata = [tool_calls |-> serialized_tool_calls]]]]

\* The handler's result applied whether or not the session has a persona.
Dispatch_AnySession(s, r) ==
    /\ sessions' = r.sessions
    /\ objs' = Collect(r.heap, r.sessions, requests)
    /\ msgs' = r.msgs
    /\ isWriting' = r.isWriting
    /\ updates' = updates + 1
    /\ UNCHANGED <<personaVars, terminalVars, commands, connection, personas, calls, locked, waiters, pending,
                   futures, requests>>

\* session_update applies the handler's result when the session has a persona
\* and returns without doing anything when it has none.
Dispatch(s, r) ==
    /\ sessions' = (IF s \in personas THEN r.sessions ELSE sessions)
    /\ objs' = (IF s \in personas THEN Collect(r.heap, r.sessions, requests) ELSE objs)
    /\ msgs' = (IF s \in personas THEN r.msgs ELSE msgs)
    /\ isWriting' = (IF s \in personas THEN r.isWriting ELSE isWriting)
    /\ updates' = updates + 1
    /\ UNCHANGED <<personaVars, terminalVars, commands, connection, personas, calls, locked, waiters, pending, futures,
                   requests>>

ToolCallStart(s, t, update) ==
    /\ Dispatch(s, handle_start(sessions, objs, msgs, isWriting, s, t, update))
    /\ last' = NoResult

ToolCallProgress(s, t, update) ==
    /\ Dispatch(s, handle_progress(sessions, objs, msgs, isWriting, s, t, update))
    /\ last' = NoResult

\* The number of chunks appended to one message is bounded by MaxChunks.
AgentMessageChunk(s, content) ==
    /\ LET message_id == get_message_id(sessions, s)
       IN message_id # 0 /\ s \in personas => Len(msgs[s][message_id].body) < MaxChunks
    /\ Dispatch(s, _handle_agent_message_chunk(sessions, objs, msgs, isWriting, s, content))
    /\ last' = NoResult

\* session_update with a ToolCallStart, a ToolCallProgress or an
\* AgentMessageChunk, the notification recorded in `last`.
SessionUpdate(s, t, type, update) ==
    /\ Dispatch(s, CASE type = "tool_call" ->
                        handle_start(sessions, objs, msgs, isWriting, s, t, update)
                     [] type = "tool_call_update" ->
                        handle_progress(sessions, objs, msgs, isWriting, s, t, update)
                     [] type = "agent_message_chunk" ->
                        _handle_agent_message_chunk(sessions, objs, msgs, isWriting,
                                                    s, update))
    /\ last' = [op |-> "session_update", session_id |-> s, type |-> type,
                 tool_call_id |-> t, update |-> update]

\* session_update with an AvailableCommandsUpdate.
AvailableCommands(s, available_commands) ==
    /\ commands' = IF available_commands # <<>> /\ s \in personas
                   THEN [commands EXCEPT ![s] = available_commands]
                   ELSE commands
    /\ updates' = updates + 1
    /\ last' = [op |-> "session_update", session_id |-> s,
                 type |-> "available_commands_update", tool_call_id |-> None,
                 update |-> available_commands]
    /\ UNCHANGED <<personaVars, terminalVars, connection, personas, calls, locked, waiters,
                   isWriting, pending, futures, requests, sessions, objs, msgs>>

-----------------------------------------------------------------------------
(* JaiAcpClient.request_permission, resolve_permission *)

\* The diffs carried by the content of the permission request.
extract_diffs(content) == content

PermissionOptions(options) ==
    [k \in 1..Len(options) |->
        [option_id |-> options[k].option_id,
         title |-> options[k].name,
         description |-> IF TruthyS(options[k].kind) THEN options[k].kind ELSE <<>>]]

create_request(pend, session_id, tool_call_id, i) ==
    [pend EXCEPT ![<<session_id, tool_call_id>>] = i]

\* request_permission up to `await future`.  The record is looked up with
\* dict.get: when there is none, setting the first attribute on None raises
\* AttributeError, after the request was registered.
RequestPermission(i, s, t, options, content) ==
    /\ requests[i].pc = "idle"
    /\ \A j \in 1..(i - 1) : requests[j].pc # "idle"
    /\ LET persona == s \in personas
           permission_options == PermissionOptions(options)
           ss1 == _ensure_session(sessions, s)
           tc == DictGet(ss1[s].tool_calls, t)
           diffs == extract_diffs(content)
           req == [pc |-> "suspended", session_id |-> s, tool_call_id |-> t,
                   persona |-> persona, options |-> permission_options,
                   tc |-> tc, notified |-> FALSE]
       IN /\ pending' = create_request(pending, s, t, i)
          /\ futures' = [futures EXCEPT ![i] = NewFuture]
          /\ IF tc = 0
             THEN /\ requests' = [requests EXCEPT ![i] = [req EXCEPT !.pc = "failed"]]
                  /\ sessions' = ss1
                  /\ last' = [op |-> "request_permission", request |-> i,
                               raised |-> "AttributeError"]
                  /\ UNCHANGED <<objs, msgs, isWriting>>
             ELSE LET heap1 == [objs EXCEPT ![tc] =
                                   [@ EXCEPT !.permission_options = permission_options,
                                             !.permission_status = "pending",
                                             !.session_id = s,
                                             !.diffs = IF TruthyId(diffs) THEN diffs ELSE @]]
                      g == get_or_create_message(ss1, msgs, isWriting, s)
                  IN /\ requests' = [requests EXCEPT ![i] = req]
                     /\ objs' = heap1
                     /\ sessions' = (IF persona THEN g.sessions ELSE ss1)
                     /\ isWriting' = (IF persona THEN g.isWriting ELSE isWriting)
                     /\ msgs' = (IF persona
                                 THEN _flush_to_message(g.sessions, heap1, g.msgs, s)
                                 ELSE msgs)
                     /\ last' = NoResult
    /\ UNCHANGED <<personaVars, terminalVars, commands, connection, personas, calls, locked, waiters, updates>>

\* The return that leaves the record as it was.
RequestResume_NoMark(i) ==
    /\ requests[i].pc = "suspended"
    /\ futures[i].done
    /\ pending' = cleanup(pending, requests[i].session_id, requests[i].tool_call_id)
    /\ requests' = [requests EXCEPT ![i] =
                        [IdleRequest EXCEPT !.pc = "returned", !.tc = requests[i].tc]]
    /\ last' = [op |-> "request_permission", request |-> i, ret |-> futures[i].result]
    /\ UNCHANGED <<personaVars, terminalVars, commands, connection, personas, calls, locked, waiters, isWriting, futures,
                   sessions, objs, msgs, updates>>

\* request_permission from the completion of its future to its return.
RequestResume(i) ==
    /\ requests[i].pc = "suspended"
    /\ futures[i].done
    /\ LET s == requests[i].session_id
           selected_option_id == futures[i].result
           heap1 == [objs EXCEPT ![requests[i].tc] =
                        [@ EXCEPT !.permission_status = "resolved",
                                  !.selected_option_id = selected_option_id]]
       IN /\ pending' = cleanup(pending, s, requests[i].tool_call_id)
          /\ objs' = heap1
          /\ msgs' = (IF requests[i].persona
                      THEN _flush_to_message(sessions, heap1, msgs, s)
                      ELSE msgs)
          /\ requests' = [requests EXCEPT ![i] =
                              [IdleRequest EXCEPT !.pc = "returned", !.tc = requests[i].tc]]
          /\ last' = [op |-> "request_permission", request |-> i,
                       ret |-> selected_option_id]
    /\ UNCHANGED <<personaVars, terminalVars, commands, connection, personas, calls, locked, waiters, isWriting, futures,
                   sessions, updates>>

ResolvePermission(s, t, option_id) ==
    /\ LET r == resolve(pending, futures, s, t, option_id)
       IN /\ futures' = r.futures
          /\ last' = [op |-> "resolve_permission", session_id |-> s,
                       tool_call_id |-> t, option_id |-> option_id, ret |-> r.ret]
    /\ requests' = Notify(requests, {i \in Requests : requests[i].session_id = s
                                                     /\ requests[i].tool_call_id = t})
    /\ UNCHANGED <<personaVars, terminalVars, commands, connection, personas, calls, locked, waiters, isWriting, pending,
                   sessions, objs, msgs, updates>>

-----------------------------------------------------------------------------

\* The turn of prompt_and_reply.
Next ==
    \/ InitConnection
    \/ \E s \in TurnSessions : CreateSession(s)
    \/ \E c \in PromptCalls, s \in Sessions, p \in PromptTexts, a \in AttachmentInputs :
           PromptStart(c, s, p, a)
    \/ \E c \in PromptCalls : PromptAcquire(c)
    \/ \E c \in PromptCalls : PromptReturn(c)
    \/ \E c \in PromptCalls : PromptFail(c)
    \/ \E c \in PromptCalls : PromptPostFail(c)
    \/ \E c \in PromptCalls : PromptCancel(c)
    \/ \E s \in Sessions, t \in TurnToolCallIds, u \in StartInputs :
           updates < TurnUpdates /\ ToolCallStart(s, t, u)
    \/ \E s \in Sessions, t \in TurnToolCallIds, u \in ProgressInputs :
           updates < TurnUpdates /\ ToolCallProgress(s, t, u)
    \/ \E s \in Sessions, u \in ChunkInputs :
           updates < TurnUpdates /\ AgentMessageChunk(s, u)
    \/ \E i \in 1..TurnRequests, s \in Sessions, t \in TurnToolCallIds, p \in TurnPermissionInputs :
           RequestPermission(i, s, t, p.options, p.content)
    \/ \E i \in Requests : RequestResume(i)
    \/ \E s \in Sessions, t \in TurnToolCallIds, o \in TurnOptionIds :
           ResolvePermission(s, t, o)

Spec == Init /\ [][Next]_vars

\* The event loop resumes a coroutine once what it awaits is done: the lock is
\* handed to the first waiter, a request_permission resumes once its future is
\* done.  The agent answers a prompt once no request_permission that it made for
\* the session is suspended.  Nobody has to answer a permission request or to
\* send another prompt.
TurnLive ==
    /\ Spec
    /\ \A c \in PromptCalls : WF_vars(PromptAcquire(c))
    /\ \A i \in Requests : WF_vars(RequestResume(i))
    /\ \A c \in PromptCalls :
           WF_vars(/\ \A i \in Requests :
                        ~(/\ requests[i].pc = "suspended"
                          /\ requests[i].session_id = calls[c].session_id)
                   /\ PromptReturn(c))

\* The permission flow.
PermNext ==
    \/ InitConnection
    \/ \E s \in PermSessions : CreateSession(s)
    \/ \E c \in 1..PermPrompts, s \in Sessions, p \in PromptTexts :
           PromptStart(c, s, p, NoAttachments)
    \/ \E c \in PromptCalls : PromptReturn(c)
    \/ \E s \in Sessions, t \in PermToolCallIds, u \in PermStartInputs :
           updates < PermUpdates /\ ToolCallStart(s, t, u)
    \/ \E i \in Requests, s \in Sessions, t \in PermToolCallIds, p \in PermissionInputs :
           RequestPermission(i, s, t, p.options, p.content)
    \/ \E i \in Requests : RequestResume(i)
    \/ \E s \in Sessions, t \in PermToolCallIds, o \in OptionIds : ResolvePermission(s, t, o)

PermSpec == Init /\ [][PermNext]_vars

\* The event loop resumes a coroutine once the future it awaits is done.
PermLive == PermSpec /\ \A i \in Requests : WF_vars(RequestResume(i))

\* AcpSlashCommandsHandler.get (routes.py): the slash commands of a persona of
\* the chat at chat_path.  The persona manager of the chat holds the persona of
\* each session; `mention_name` is p.as_user().mention_name.  `persona` is
\* assigned when a persona of that mention name is met, and nowhere before the
\* loop: when none is met, reading it raises UnboundLocalError.  Without a
\* mention name the persona is last_mentioned_persona or default_persona, any
\* persona of the manager or None.  The name of a command that does not start
\* with "/" gets one in front.
AcpSlashCommandsHandlerGet(chat_path, file_id, persona_manager, persona_mention_name) ==
    LET mention_name == [p \in Sessions |-> IF p = "s1" THEN "claude" ELSE "gemini"]
        matching == {p \in personas : mention_name[p] = persona_mention_name}
        request == [op |-> "get", chat_path |-> chat_path, file_id |-> file_id,
                    persona_manager |-> persona_manager,
                    persona_mention_name |-> persona_mention_name,
                    mention_names |-> {mention_name[p] : p \in personas}]
        HTTPError(status_code) ==
            request @@ [raised |-> "HTTPError", status_code |-> <<status_code>>,
                        commands |-> <<>>]
        finish(persona) ==
            request @@ [raised |-> None, status_code |-> <<200>>,
                        commands |-> IF persona = None THEN <<>>
                                     ELSE [k \in 1..Len(commands[persona]) |->
                                               <<"/", commands[persona][k]>>]]
    IN  /\ \E default_persona \in personas \cup {None} :
           last' = IF chat_path = "" THEN HTTPError(400)
                   ELSE IF file_id = None THEN HTTPError(404)
                   ELSE IF ~persona_manager THEN HTTPError(404)
                   ELSE IF persona_mention_name # ""
                   THEN IF matching = {}
                        THEN request @@ [raised |-> "UnboundLocalError",
                                         status_code |-> <<>>, commands |-> <<>>]
                        ELSE finish(CHOOSE p \in matching : TRUE)
                   ELSE finish(default_persona)
        /\ UNCHANGED <<personaVars, clientVars, terminalVars>>

\* The handling of session/update notifications.
UpdateNext ==
    \/ InitConnection
    \/ \E s \in UpdateSessions : CreateSession(s)
    \/ \E s \in Sessions, t \in ToolCallIds, u \in UpdateStartInputs :
           updates < MaxUpdates /\ SessionUpdate(s, t, "tool_call", u)
    \/ \E s \in Sessions, t \in ToolCallIds, u \in UpdateProgressInputs :
           updates < MaxUpdates /\ SessionUpdate(s, t, "tool_call_update", u)
    \/ \E s \in Sessions, u \in ChunkInputs :
           updates < MaxUpdates /\ SessionUpdate(s, None, "agent_message_chunk", u)
    \/ \E s \in Sessions, u \in CommandInputs :
           updates < MaxUpdates /\ AvailableCommands(s, u)

UpdateSpec == Init /\ [][UpdateNext]_vars

\* Two sessions with a persona each: the turns that reset their state and the
\* start, progress and chunk events of one tool call in each.
IsolationNext ==
    \/ InitConnection
    \/ \E s \in Sessions : CreateSession(s)
    \/ \E c \in PromptCalls, s \in Sessions : PromptStart(c, s, hello, NoAttachments)
    \/ \E c \in PromptCalls : PromptAcquire(c)
    \/ \E c \in PromptCalls : PromptReturn(c)
    \/ \E s \in Sessions,
          u \in {[title |-> <<>>, kind |-> "read", locations |-> <<x_f>>],
                 [title |-> Read_path, kind |-> "", locations |-> <<>>]} :
           updates < MaxUpdates /\ SessionUpdate(s, "t1", "tool_call", u)
    \/ \E s \in Sessions,
          u \in {[NoProgress EXCEPT !.status = "completed"],
                 [NoProgress EXCEPT !.title = Read_path]} :
           updates < MaxUpdates /\ SessionUpdate(s, "t1", "tool_call_update", u)
    \/ \E s \in Sessions, u \in ChunkInputs :
           updates < MaxUpdates /\ SessionUpdate(s, None, "agent_message_chunk", u)

IsolationSpec == Init /\ [][IsolationNext]_vars

\* The titles of tool-call starts, and the requests for the slash commands of
\* the chat that arrive in between.
TitleNext ==
    \/ InitConnection
    \/ \E s \in UpdateSessions : CreateSession(s)
    \/ \E chat_path \in {"", "a.chat"}, file_id \in {None, "f1"}, persona_manager \in BOOLEAN,
          persona_mention_name \in {"", "claude", "nonexistent-bot"} :
           AcpSlashCommandsHandlerGet(chat_path, file_id, persona_manager, persona_mention_name)
    \/ \E s \in UpdateSessions, u \in TitleInputs :
           updates < MaxUpdates /\ SessionUpdate(s, "t1", "tool_call", u)

TitleSpec == Init /\ [][TitleNext]_vars

-----------------------------------------------------------------------------
(* TerminalManager (terminal_manager.py) *)

\* The names of the environment variables an agent must not set.
_DENIED_ENV_VARS ==
    {<<"L", "D", "_", "P", "R", "E", "L", "O", "A", "D">>,
     <<"L", "D", "_", "L", "I", "B", "R", "A", "R", "Y", "_", "P", "A", "T", "H">>,
     <<"L", "D", "_", "A", "U", "D", "I", "T">>,
     <<"D", "Y", "L", "D", "_", "I", "N", "S", "E", "R", "T", "_", "L", "I", "B", "R", "A", "R", "I", "E", "S">>,
     <<"D", "Y", "L", "D", "_", "L", "I", "B", "R", "A", "R", "Y", "_", "P", "A", "T", "H">>,
     <<"D", "Y", "L", "D", "_", "F", "R", "A", "M", "E", "W", "O", "R", "K", "_", "P", "A", "T", "H">>,
     <<"P", "Y", "T", "H", "O", "N", "P", "A", "T", "H">>,
     <<"P", "Y", "T", "H", "O", "N", "S", "T", "A", "R", "T", "U", "P">>,
     <<"P", "Y", "T", "H", "O", "N", "H", "O", "M", "E">>,
     <<"N", "O", "D", "E", "_", "O", "P", "T", "I", "O", "N", "S">>,
     <<"B", "A", "S", "H", "_", "E", "N", "V">>,
     <<"E", "N", "V">>}

\* The environments of the modelled create_terminal calls, as the lists of the
\* names of their variables: env left None, allowed names, and denied names in
\* upper, lower and mixed case.
EnvInputs ==
    {<<>>,
     <<<<"M", "Y", "_", "V", "A", "R">>>>,
     <<<<"E", "N", "V">>>>,
     <<<<"e", "n", "v">>>>,
     <<<<"M", "Y", "_", "V", "A", "R">>, <<"L", "d", "_", "P", "r", "e", "l", "o", "a", "d">>>>}

\* _validate_terminal, had it not compared the session ids.
_validate_terminal_AnySession(ts, terminal_id, session_id) ==
    IF ts[terminal_id] = None THEN "resource_not_found" ELSE None

\* _validate_terminal: the error it raises for (terminal_id, session_id), None
\* when it returns the terminal's info.
_validate_terminal(ts, terminal_id, session_id) ==
    IF ts[terminal_id] = None THEN "resource_not_found"
    ELSE IF ts[terminal_id] # session_id THEN "invalid_request"
    ELSE None

\* _set_exit_status, had it stored a negative return code as the exit code.
_set_exit_status_NegativeCode(info, returncode) ==
    [info EXCEPT !.exit_code = returncode, !.exit_signal = NoneS]

\* _set_exit_status, had it stored the return code of a killed process next to
\* the name of the signal.
_set_exit_status_BothSet(info, returncode) ==
    IF returncode = <<>>
    THEN [info EXCEPT !.exit_code = <<>>, !.exit_signal = NoneS]
    ELSE [info EXCEPT !.exit_code = returncode,
                      !.exit_signal = IF returncode[1] < 0
                                      THEN <<"S", "I", "G", "K", "I", "L", "L">>
                                      ELSE NoneS]

\* _set_exit_status: the info with exit_code and exit_signal set from returncode.
\* signal.Signals is given for the signal numbers of the modelled return codes;
\* 32 and 100 are not numbers of signal.Signals.
_set_exit_status(info, returncode) ==
    LET Signals == [n \in {1, 2, 9, 15} |->
                       CASE n = 1 -> <<"S", "I", "G", "H", "U", "P">>
                         [] n = 2 -> <<"S", "I", "G", "I", "N", "T">>
                         [] n = 9 -> <<"S", "I", "G", "K", "I", "L", "L">>
                         [] n = 15 -> <<"S", "I", "G", "T", "E", "R", "M">>]
        RECURSIVE str(_)
        str(n) == IF n < 10
                  THEN <<<<"0", "1", "2", "3", "4", "5", "6", "7", "8", "9">>[n + 1]>>
                  ELSE str(n \div 10) \o str(n % 10)
        abs(n) == IF n < 0 THEN 0 - n ELSE n
    IN  IF returncode = <<>>
        THEN [info EXCEPT !.exit_code = <<>>, !.exit_signal = NoneS]
        ELSE IF returncode[1] < 0
        THEN [info EXCEPT !.exit_code = <<>>,
                          !.exit_signal =
                              IF abs(returncode[1]) \in DOMAIN Signals
                              THEN Signals[abs(returncode[1])]
                              ELSE <<"S", "I", "G">> \o str(abs(returncode[1]))]
        ELSE [info EXCEPT !.exit_code = returncode, !.exit_signal = NoneS]

\* _trim_front_at_char_boundary, had it dropped the newest bytes.
_trim_front_at_char_boundary_KeepHead(buf, limit) ==
    IF Len(buf) <= limit THEN buf ELSE SubSeq(buf, 1, limit)

\* _trim_front_at_char_boundary, had it cut at `limit` bytes whatever byte
\* comes first then.
_trim_front_at_char_boundary_NoSkip(buf, limit) ==
    IF Len(buf) <= limit THEN buf ELSE SubSeq(buf, Len(buf) - limit + 1, Len(buf))

\* _trim_front_at_char_boundary: buf after the trim to `limit` bytes.  A UTF-8
\* continuation byte, (b & 0xC0) == 0x80, is a byte in 128..191.
_trim_front_at_char_boundary(buf, limit) ==
    LET excess == Len(buf) - limit
        cut == IF excess >= Len(buf) THEN <<>> ELSE SubSeq(buf, excess + 1, Len(buf))
        skip == IF \A i \in 1..Len(cut) : cut[i] \in 128..191
                THEN Len(cut)
                ELSE (CHOOSE i \in 1..Len(cut) :
                          /\ cut[i] \notin 128..191
                          /\ \A j \in 1..(i - 1) : cut[j] \in 128..191) - 1
    IN  IF excess <= 0 THEN buf
        ELSE SubSeq(cut, skip + 1, Len(cut))

\* create_terminal, had it compared the names of the environment as they are
\* written.
CreateTerminal_CaseSensitive(c, s, command, env, output_byte_limit) ==
    /\ creates[c].pc = "idle"
    /\ LET upperChar(ch) == CASE ch = "a" -> "A"
                        [] ch = "b" -> "B"
                        [] ch = "c" -> "C"
                        [] ch = "d" -> "D"
                        [] ch = "e" -> "E"
                        [] ch = "f" -> "F"
                        [] ch = "g" -> "G"
                        [] ch = "h" -> "H"
                        [] ch = "i" -> "I"
                        [] ch = "j" -> "J"
                        [] ch = "k" -> "K"
                        [] ch = "l" -> "L"
                        [] ch = "m" -> "M"
                        [] ch = "n" -> "N"
                        [] ch = "o" -> "O"
                        [] ch = "p" -> "P"
                        [] ch = "q" -> "Q"
                        [] ch = "r" -> "R"
                        [] ch = "s" -> "S"
                        [] ch = "t" -> "T"
                        [] ch = "u" -> "U"
                        [] ch = "v" -> "V"
                        [] ch = "w" -> "W"
                        [] ch = "x" -> "X"
                        [] ch = "y" -> "Y"
                        [] ch = "z" -> "Z"
                        [] OTHER -> ch
           upper(name) == [i \in 1..Len(name) |-> upperChar(name[i])]
           raised ==
               IF Cardinality({id \in TerminalIds : terminals[id] # None}) >= MAX_TERMINALS
               THEN "invalid_request"
               ELSE IF \A i \in 1..Len(command) : IsSpace(command[i])
               THEN "invalid_params"
               ELSE IF \E i \in 1..Len(env) : env[i] \in _DENIED_ENV_VARS
               THEN "invalid_params"
               ELSE None
           effective_byte_limit ==
               IF output_byte_limit # <<>> THEN output_byte_limit
               ELSE <<10 * 1024 * 1024>>
       IN  /\ creates' = [creates EXCEPT ![c] =
                  IF raised = None
                  THEN [pc |-> "spawning", session_id |-> s,
                        output_byte_limit |-> effective_byte_limit]
                  ELSE [pc |-> "done"]]
           /\ last' = [op |-> "create_terminal", session_id |-> s, terminal_id |-> 0,
                       env |-> env, raised |-> raised, returned |-> FALSE,
                       resumed |-> FALSE]
    /\ UNCHANGED <<personaVars, clientVars, terminals, processes, tasks, releases, infos,
                   returncodes, waiting, received, cleanups>>

\* create_terminal up to `await asyncio.create_subprocess_exec(...)`, called
\* with cwd and args left None and a command that shlex.split accepts: the
\* count of tracked terminals is tested first, then the command, then the names
\* of the environment, in the order of `env`; the call then suspends while the
\* subprocess is spawned.
CreateTerminal(c, s, command, env, output_byte_limit) ==
    /\ creates[c].pc = "idle"
    /\ LET upperChar(ch) == CASE ch = "a" -> "A"
                        [] ch = "b" -> "B"
                        [] ch = "c" -> "C"
                        [] ch = "d" -> "D"
                        [] ch = "e" -> "E"
                        [] ch = "f" -> "F"
                        [] ch = "g" -> "G"
                        [] ch = "h" -> "H"
                        [] ch = "i" -> "I"
                        [] ch = "j" -> "J"
                        [] ch = "k" -> "K"
                        [] ch = "l" -> "L"
                        [] ch = "m" -> "M"
                        [] ch = "n" -> "N"
                        [] ch = "o" -> "O"
                        [] ch = "p" -> "P"
                        [] ch = "q" -> "Q"
                        [] ch = "r" -> "R"
                        [] ch = "s" -> "S"
                        [] ch = "t" -> "T"
                        [] ch = "u" -> "U"
                        [] ch = "v" -> "V"
                        [] ch = "w" -> "W"
                        [] ch = "x" -> "X"
                        [] ch = "y" -> "Y"
                        [] ch = "z" -> "Z"
                        [] OTHER -> ch
           upper(name) == [i \in 1..Len(name) |-> upperChar(name[i])]
           raised ==
               IF Cardinality({id \in TerminalIds : terminals[id] # None}) >= MAX_TERMINALS
               THEN "invalid_request"
               ELSE IF \A i \in 1..Len(command) : IsSpace(command[i])
               THEN "invalid_params"
               ELSE IF \E i \in 1..Len(env) :
                           upper(env[i]) \in _DENIED_ENV_VARS \/ env[i] \in _DENIED_ENV_VARS
               THEN "invalid_params"
               ELSE None
           effective_byte_limit ==
               IF output_byte_limit # <<>> THEN output_byte_limit
               ELSE <<10 * 1024 * 1024>>
       IN  /\ creates' = [creates EXCEPT ![c] =
                  IF raised = None
                  THEN [pc |-> "spawning", session_id |-> s,
                        output_byte_limit |-> effective_byte_limit]
                  ELSE [pc |-> "done"]]
           /\ last' = [op |-> "create_terminal", session_id |-> s, terminal_id |-> 0,
                       env |-> env, raised |-> raised, returned |-> FALSE,
                       resumed |-> FALSE]
    /\ UNCHANGED <<personaVars, clientVars, terminals, processes, tasks, releases, infos,
                   returncodes, waiting, received, cleanups>>

\* create_terminal from the return of create_subprocess_exec on: the spawn
\* raised (FileNotFoundError, PermissionError: invalid_params; another OSError:
\* internal_error), or the terminal gets a fresh id, is entered in _terminals
\* and its reader task is created.  Nothing suspends in between.
CreateTerminalSpawned(c, raised) ==
    /\ creates[c].pc = "spawning"
    /\ creates' = [creates EXCEPT ![c] = [pc |-> "done"]]
    /\ IF raised # None
       THEN /\ last' = [op |-> "create_terminal", session_id |-> creates[c].session_id,
                        terminal_id |-> 0, raised |-> raised, returned |-> FALSE,
                        resumed |-> TRUE]
            /\ UNCHANGED <<terminals, processes, tasks, infos>>
       ELSE LET terminal_id == CHOOSE id \in TerminalIds :
                    /\ processes[id] = "none"
                    /\ \A other \in 1..(id - 1) : processes[other] # "none"
            IN  /\ terminals' = [terminals EXCEPT ![terminal_id] = creates[c].session_id]
                /\ processes' = [processes EXCEPT ![terminal_id] = "running"]
                /\ tasks' = [tasks EXCEPT ![terminal_id] = "running"]
                /\ infos' = [infos EXCEPT ![terminal_id] =
                                TerminalInfo(creates[c].output_byte_limit)]
                /\ last' = [op |-> "create_terminal",
                            session_id |-> creates[c].session_id,
                            terminal_id |-> terminal_id, raised |-> None,
                            returned |-> TRUE, resumed |-> TRUE]
    /\ UNCHANGED <<personaVars, clientVars, releases, returncodes, waiting, received, cleanups>>

\* The command of a terminal ends: it exits with a code >= 0, or a signal that
\* nothing of the manager sent ends it (a return code < 0).
ProcessExit(terminal_id, returncode) ==
    /\ processes[terminal_id] = "running"
    /\ processes' = [processes EXCEPT ![terminal_id] = "exited"]
    /\ returncodes' = [returncodes EXCEPT ![terminal_id] = <<returncode>>]
    /\ last' = NoResult
    /\ UNCHANGED <<personaVars, clientVars, terminals, tasks, creates, releases, infos, waiting,
                   received, cleanups>>

\* _read_terminal_output, one turn of its loop: the reader task has read a
\* chunk that is not empty, appends it to the buffer and trims the buffer when
\* it has grown beyond the limit.
ReadTerminalChunk(terminal_id, chunk) ==
    /\ tasks[terminal_id] = "running"
    /\ Len(received[terminal_id]) + Len(chunk) <= MaxOutput
    /\ received' = [received EXCEPT ![terminal_id] = @ \o chunk]
    /\ LET info == infos[terminal_id]
           output_buffer == info.output_buffer \o chunk
       IN  infos' = [infos EXCEPT ![terminal_id] =
               IF /\ info.output_byte_limit # <<>>
                  /\ Len(output_buffer) > info.output_byte_limit[1]
               THEN [info EXCEPT
                        !.truncated = TRUE,
                        !.output_buffer = _trim_front_at_char_boundary(
                                              output_buffer, info.output_byte_limit[1])]
               ELSE [info EXCEPT !.output_buffer = output_buffer]]
    /\ last' = [op |-> "_read_terminal_output", terminal_id |-> terminal_id,
                chunk |-> chunk]
    /\ UNCHANGED <<personaVars, clientVars, terminals, processes, tasks, creates, releases,
                   returncodes, waiting, cleanups>>

\* _read_terminal_output: the reader task ends after the process has exited
\* (end of its output, then process.wait() and _set_exit_status), or with the
\* CancelledError that a cancel() delivers to it.
ReadTerminalOutput(terminal_id) ==
    /\ \/ /\ tasks[terminal_id] = "running" /\ processes[terminal_id] = "exited"
          /\ tasks' = [tasks EXCEPT ![terminal_id] = "done"]
          /\ infos' = [infos EXCEPT ![terminal_id] =
                          _set_exit_status(@, returncodes[terminal_id])]
       \/ /\ tasks[terminal_id] = "cancelling"
          /\ tasks' = [tasks EXCEPT ![terminal_id] = "cancelled"]
          /\ UNCHANGED infos
    /\ last' = NoResult
    /\ UNCHANGED <<personaVars, clientVars, terminals, processes, creates, releases, returncodes,
                   waiting, received, cleanups>>

\* release_terminal, had it deleted the terminal without cancelling and awaiting
\* the reader task.
ReleaseAfterKill_NoCancel(r, s, terminal_id) ==
    /\ terminals' = [terminals EXCEPT ![terminal_id] = None]
    /\ releases' = [releases EXCEPT ![r] = [pc |-> "done"]]
    /\ last' = [op |-> "release_terminal", session_id |-> s,
                terminal_id |-> terminal_id,
                raised |-> IF terminals[terminal_id] = None THEN "KeyError" ELSE None,
                returned |-> terminals[terminal_id] # None,
                resumed |-> releases[r].pc # "idle"]
    /\ UNCHANGED tasks

\* release_terminal after `await info.process.wait()`: a reader task that is
\* not done is cancelled and awaited; otherwise the terminal is deleted from
\* _terminals and the call returns.  `del` raises KeyError when an overlapping
\* release_terminal call has deleted the entry.
ReleaseAfterKill(r, s, terminal_id) ==
    IF tasks[terminal_id] \in {"running", "cancelling"}
    THEN /\ tasks' = [tasks EXCEPT ![terminal_id] = "cancelling"]
         /\ releases' = [releases EXCEPT ![r] =
                [pc |-> "task", session_id |-> s, terminal_id |-> terminal_id]]
         /\ last' = [op |-> "release_terminal", session_id |-> s,
                     terminal_id |-> terminal_id, raised |-> None, returned |-> FALSE,
                     resumed |-> releases[r].pc # "idle"]
         /\ UNCHANGED terminals
    ELSE /\ terminals' = [terminals EXCEPT ![terminal_id] = None]
         /\ releases' = [releases EXCEPT ![r] = [pc |-> "done"]]
         /\ last' = [op |-> "release_terminal", session_id |-> s,
                     terminal_id |-> terminal_id,
                     raised |-> IF terminals[terminal_id] = None THEN "KeyError" ELSE None,
                     returned |-> terminals[terminal_id] # None,
                     resumed |-> releases[r].pc # "idle"]
         /\ UNCHANGED tasks

\* release_terminal up to its first suspension: _validate_terminal, then a
\* process that is still running is killed (SIGKILL: return code -9) and awaited.
ReleaseTerminal(r, s, terminal_id) ==
    /\ releases[r].pc = "idle"
    /\ LET raised == _validate_terminal(terminals, terminal_id, s)
       IN  IF raised # None
           THEN /\ releases' = [releases EXCEPT ![r] = [pc |-> "done"]]
                /\ last' = [op |-> "release_terminal", session_id |-> s,
                            terminal_id |-> terminal_id, raised |-> raised,
                            returned |-> FALSE, resumed |-> FALSE]
                /\ UNCHANGED <<terminals, processes, tasks, returncodes>>
           ELSE IF processes[terminal_id] = "running"
           THEN /\ processes' = [processes EXCEPT ![terminal_id] = "exited"]
                /\ returncodes' = [returncodes EXCEPT ![terminal_id] = << -9 >>]
                /\ releases' = [releases EXCEPT ![r] =
                       [pc |-> "process", session_id |-> s, terminal_id |-> terminal_id]]
                /\ last' = [op |-> "release_terminal", session_id |-> s,
                            terminal_id |-> terminal_id, raised |-> None,
                            returned |-> FALSE, resumed |-> FALSE]
                /\ UNCHANGED <<terminals, tasks>>
           ELSE /\ ReleaseAfterKill(r, s, terminal_id)
                /\ UNCHANGED <<processes, returncodes>>
    /\ UNCHANGED <<personaVars, clientVars, creates, infos, waiting, received, cleanups>>

\* release_terminal resumes: from process.wait() once the process has exited,
\* from the awaited reader task once that task is done.
ReleaseTerminalResume(r) ==
    /\ releases[r].pc \in {"process", "task"}
    /\ releases[r].pc = "process" => processes[releases[r].terminal_id] = "exited"
    /\ releases[r].pc = "task" => tasks[releases[r].terminal_id] \in {"done", "cancelled"}
    /\ ReleaseAfterKill(r, releases[r].session_id, releases[r].terminal_id)
    /\ UNCHANGED <<personaVars, clientVars, processes, creates, infos, returncodes, waiting,
                   received, cleanups>>

\* The calls, had terminal_output answered from the exit status that the info
\* holds and not from the return code of the process.
TerminalCall_CachedStatus(op, s, terminal_id) ==
    /\ op \notin waiting[terminal_id]
    /\ LET raised == _validate_terminal(terminals, terminal_id, s)
           running == processes[terminal_id] = "running"
           suspends == raised = None /\ running /\ op # "terminal_output"
           info == IF raised = None /\ ~running /\ op = "wait_for_terminal_exit"
                   THEN _set_exit_status(infos[terminal_id], returncodes[terminal_id])
                   ELSE infos[terminal_id]
       IN  /\ infos' = [infos EXCEPT ![terminal_id] = info]
           /\ processes' =
                  IF raised = None /\ op = "kill_terminal"
                  THEN [processes EXCEPT ![terminal_id] = "exited"]
                  ELSE processes
           /\ returncodes' =
                  IF raised = None /\ op = "kill_terminal" /\ running
                  THEN [returncodes EXCEPT ![terminal_id] = << -9 >>]
                  ELSE returncodes
           /\ waiting' = IF suspends THEN [waiting EXCEPT ![terminal_id] = @ \cup {op}]
                         ELSE waiting
           /\ last' = [op |-> op, session_id |-> s, terminal_id |-> terminal_id,
                       raised |-> raised, returned |-> raised = None /\ ~suspends,
                       resumed |-> FALSE,
                       truncated |-> info.truncated,
                       exit_status |->
                           IF /\ raised = None
                              /\ op # "kill_terminal"
                              /\ IF op = "terminal_output"
                                 THEN info.exit_code # <<>> \/ info.exit_signal # NoneS
                                 ELSE ~running
                           THEN <<info.exit_code, info.exit_signal>>
                           ELSE <<>>]
    /\ UNCHANGED <<personaVars, clientVars, terminals, tasks, creates, releases, received, cleanups>>

\* terminal_output, wait_for_terminal_exit and kill_terminal up to their return
\* or to `await info.process.wait()`.  _validate_terminal is their first
\* statement and the only place where they read _terminals.  terminal_output
\* never suspends; wait_for_terminal_exit suspends while the process runs;
\* kill_terminal kills a process that still runs (SIGKILL: return code -9)
\* and suspends until it has exited.  The call is added to `waiting` when it
\* suspends.  The result is the exit status of the response; the decoded text
\* of the buffer is not part of the model.
TerminalCall(op, s, terminal_id) ==
    /\ op \notin waiting[terminal_id]
    /\ LET raised == _validate_terminal(terminals, terminal_id, s)
           running == processes[terminal_id] = "running"
           suspends == raised = None /\ running /\ op # "terminal_output"
           info == IF raised = None /\ ~running /\ op # "kill_terminal"
                   THEN _set_exit_status(infos[terminal_id], returncodes[terminal_id])
                   ELSE infos[terminal_id]
       IN  /\ infos' = [infos EXCEPT ![terminal_id] = info]
           /\ processes' =
                  IF raised = None /\ op = "kill_terminal"
                  THEN [processes EXCEPT ![terminal_id] = "exited"]
                  ELSE processes
           /\ returncodes' =
                  IF raised = None /\ op = "kill_terminal" /\ running
                  THEN [returncodes EXCEPT ![terminal_id] = << -9 >>]
                  ELSE returncodes
           /\ waiting' = IF suspends THEN [waiting EXCEPT ![terminal_id] = @ \cup {op}]
                         ELSE waiting
           /\ last' = [op |-> op, session_id |-> s, terminal_id |-> terminal_id,
                       raised |-> raised, returned |-> raised = None /\ ~suspends,
                       resumed |-> FALSE,
                       truncated |-> info.truncated,
                       exit_status |-> IF raised = None /\ ~running /\ op # "kill_terminal"
                                       THEN <<info.exit_code, info.exit_signal>>
                                       ELSE <<>>]
    /\ UNCHANGED <<personaVars, clientVars, terminals, tasks, creates, releases, received, cleanups>>

\* wait_for_terminal_exit and kill_terminal from the return of
\* `await info.process.wait()` on: _set_exit_status with the return code, then
\* the response.
WaitResume(op, terminal_id) ==
    /\ op \in waiting[terminal_id]
    /\ processes[terminal_id] = "exited"
    /\ waiting' = [waiting EXCEPT ![terminal_id] = @ \ {op}]
    /\ infos' = [infos EXCEPT ![terminal_id] =
                    _set_exit_status(@, returncodes[terminal_id])]
    /\ last' = [op |-> op, session_id |-> None, terminal_id |-> terminal_id,
                raised |-> None, returned |-> TRUE, resumed |-> TRUE,
                truncated |-> infos'[terminal_id].truncated,
                exit_status |-> IF op = "kill_terminal" THEN <<>>
                                ELSE <<infos'[terminal_id].exit_code,
                                       infos'[terminal_id].exit_signal>>]
    /\ UNCHANGED <<personaVars, clientVars, terminals, processes, tasks, creates, releases,
                   returncodes, received, cleanups>>

\* _set_exit_status applied to the info of a terminal and a return code, as
\* every caller of the static method may.
SetExitStatus(terminal_id, returncode) ==
    /\ terminals[terminal_id] # None
    /\ infos' = [infos EXCEPT ![terminal_id] = _set_exit_status(@, returncode)]
    /\ last' = [op |-> "_set_exit_status", terminal_id |-> terminal_id,
                returncode |-> returncode]
    /\ UNCHANGED <<personaVars, clientVars, terminals, processes, tasks, creates, releases,
                   returncodes, waiting, received, cleanups>>

\* cleanup_session, had it let the failure of a release_terminal call end it.
RECURSIVE cleanup_session_StopOnError(_, _, _, _)
cleanup_session_StopOnError(st, s, todo, resumed) ==
    IF todo = <<>> THEN [st |-> st, pc |-> "done", todo |-> todo, logged |-> 0]
    ELSE LET terminal_id == Head(todo)
         IN  IF ~resumed /\ _validate_terminal(st.terminals, terminal_id, s) # None
             THEN [st |-> st, pc |-> "done", todo |-> todo, logged |-> 0]
             ELSE IF ~resumed /\ st.processes[terminal_id] = "running"
             THEN [st |-> [st EXCEPT !.processes[terminal_id] = "exited",
                                     !.returncodes[terminal_id] = << -9 >>],
                   pc |-> "process", todo |-> todo, logged |-> 0]
             ELSE IF st.tasks[terminal_id] \in {"running", "cancelling"}
             THEN [st |-> [st EXCEPT !.tasks[terminal_id] = "cancelling"],
                   pc |-> "task", todo |-> todo, logged |-> 0]
             ELSE IF st.terminals[terminal_id] = None
             THEN [st |-> st, pc |-> "done", todo |-> todo, logged |-> 0]
             ELSE cleanup_session_StopOnError(
                      [st EXCEPT !.terminals[terminal_id] = None], s, Tail(todo), FALSE)

\* cleanup_session from the terminal at the head of `todo` on, up to its next
\* suspension or its return: the loop over terminal_ids with the statements of
\* release_terminal that run for each terminal.  `resumed` tells that the call
\* resumes inside release_terminal for the head of `todo`, from process.wait()
\* or from the awaited reader task.  A release_terminal call that raises (from
\* _validate_terminal, or KeyError from `del`) is logged and the loop goes on;
\* `logged` counts them.
\* st holds _terminals, the processes, their return codes and the reader tasks.
RECURSIVE cleanup_session(_, _, _, _)
cleanup_session(st, s, todo, resumed) ==
    IF todo = <<>> THEN [st |-> st, pc |-> "done", todo |-> todo, logged |-> 0]
    ELSE LET terminal_id == Head(todo)
         IN  IF ~resumed /\ _validate_terminal(st.terminals, terminal_id, s) # None
             THEN [cleanup_session(st, s, Tail(todo), FALSE) EXCEPT !.logged = @ + 1]
             ELSE IF ~resumed /\ st.processes[terminal_id] = "running"
             THEN [st |-> [st EXCEPT !.processes[terminal_id] = "exited",
                                     !.returncodes[terminal_id] = << -9 >>],
                   pc |-> "process", todo |-> todo, logged |-> 0]
             ELSE IF st.tasks[terminal_id] \in {"running", "cancelling"}
             THEN [st |-> [st EXCEPT !.tasks[terminal_id] = "cancelling"],
                   pc |-> "task", todo |-> todo, logged |-> 0]
             ELSE IF st.terminals[terminal_id] = None
             THEN [cleanup_session(st, s, Tail(todo), FALSE) EXCEPT !.logged = @ + 1]
             ELSE cleanup_session(
                      [st EXCEPT !.terminals[terminal_id] = None], s, Tail(todo), FALSE)

\* cleanup_session up to its first suspension: terminal_ids is the list of the
\* terminals of the session, in the order of _terminals.
CleanupSession(k, s) ==
    /\ cleanups[k].pc = "idle"
    /\ LET RECURSIVE inOrder(_)
           inOrder(ids) ==
               IF ids = {} THEN <<>>
               ELSE LET first == CHOOSE id \in ids : \A other \in ids : id <= other
                    IN  <<first>> \o inOrder(ids \ {first})
           terminal_ids == inOrder({id \in TerminalIds : terminals[id] = s})
           run == cleanup_session(
                      [terminals |-> terminals, processes |-> processes,
                       returncodes |-> returncodes, tasks |-> tasks],
                      s, terminal_ids, FALSE)
       IN  /\ terminals' = run.st.terminals
           /\ processes' = run.st.processes
           /\ returncodes' = run.st.returncodes
           /\ tasks' = run.st.tasks
           /\ cleanups' = [cleanups EXCEPT ![k] =
                  [pc |-> run.pc, session_id |-> s, terminal_ids |-> terminal_ids,
                   todo |-> run.todo, logged |-> run.logged]]
           /\ last' = [op |-> "cleanup_session", session_id |-> s,
                       terminal_ids |-> terminal_ids, raised |-> None,
                       returned |-> run.pc = "done", resumed |-> FALSE]
    /\ UNCHANGED <<personaVars, clientVars, creates, releases, infos, waiting, received>>

\* cleanup_session resumes inside release_terminal: from process.wait() once
\* the process has exited, from the awaited reader task once that task is done.
CleanupSessionResume(k) ==
    /\ cleanups[k].pc \in {"process", "task"}
    /\ cleanups[k].pc = "process" => processes[Head(cleanups[k].todo)] = "exited"
    /\ cleanups[k].pc = "task" => tasks[Head(cleanups[k].todo)] \in {"done", "cancelled"}
    /\ LET run == cleanup_session(
                      [terminals |-> terminals, processes |-> processes,
                       returncodes |-> returncodes, tasks |-> tasks],
                      cleanups[k].session_id, cleanups[k].todo, TRUE)
       IN  /\ terminals' = run.st.terminals
           /\ processes' = run.st.processes
           /\ returncodes' = run.st.returncodes
           /\ tasks' = run.st.tasks
           /\ cleanups' = [cleanups EXCEPT ![k].pc = run.pc, ![k].todo = run.todo,
                                            ![k].logged = @ + run.logged]
           /\ last' = [op |-> "cleanup_session", session_id |-> cleanups[k].session_id,
                       terminal_ids |-> cleanups[k].terminal_ids, raised |-> None,
                       returned |-> run.pc = "done", resumed |-> TRUE]
    /\ UNCHANGED <<personaVars, clientVars, creates, releases, infos, waiting, received>>

\* The manager with no terminal, or after MAX_TERMINALS - 1 create_terminal
\* calls of session s1 whose commands have exited with code 0 and whose output,
\* which was empty, has been read.
TermInit ==
    /\ ClientInit
    /\ \E n \in {0, MAX_TERMINALS - 1} :
           /\ terminals = [id \in TerminalIds |-> IF id <= n THEN "s1" ELSE None]
           /\ processes = [id \in TerminalIds |-> IF id <= n THEN "exited" ELSE "none"]
           /\ tasks = [id \in TerminalIds |-> IF id <= n THEN "done" ELSE "none"]
           /\ returncodes = [id \in TerminalIds |-> IF id <= n THEN <<0>> ELSE <<>>]
           /\ infos = [id \in TerminalIds |->
                  IF id <= n
                  THEN _set_exit_status(TerminalInfo(<<10 * 1024 * 1024>>), <<0>>)
                  ELSE TerminalInfo(<<>>)]

\* The calls are made for terminal 1 and terminal MAX_TERMINALS: the terminal
\* that is spawned first in either initial state, which in the other one is a
\* terminal that was spawned before or an id that is not in use.
TermNext ==
    \/ \E c \in 1..MaxCreates, command \in {<<>>, <<" ">>, <<"l", "s">>},
          env \in EnvInputs :
           CreateTerminal(c, "s1", command, env, <<>>)
    \/ \E c \in 1..MaxCreates, raised \in {None, "invalid_params", "internal_error"} :
           CreateTerminalSpawned(c, raised)
    \/ \E id \in TerminalIds : ProcessExit(id, 0)
    \/ \E id \in TerminalIds : ReadTerminalOutput(id)
    \/ \E r \in 1..MaxReleases, s \in Sessions,
          id \in {1, MAX_TERMINALS} :
           ReleaseTerminal(r, s, id)
    \/ \E r \in 1..MaxReleases : ReleaseTerminalResume(r)
    \/ \E op \in {"terminal_output", "wait_for_terminal_exit", "kill_terminal"},
          s \in Sessions, id \in {1, MAX_TERMINALS} :
           TerminalCall(op, s, id)
    \/ \E op \in {"wait_for_terminal_exit", "kill_terminal"}, id \in TerminalIds :
           WaitResume(op, id)

TermSpec == TermInit /\ [][TermNext]_vars

\* The output and the exit status of one terminal.  The chunks are made of the
\* bytes of "A", of a character of two bytes (195 169) and of one of three bytes
\* (226 130 172), whole or cut; the limits are the default, zero and small ones.
OutputNext ==
    \/ \E output_byte_limit \in {<<>>, <<0>>, <<1>>, <<2>>} :
           CreateTerminal(1, "s1", <<"l", "s">>, <<>>, output_byte_limit)
    \/ CreateTerminalSpawned(1, None)
    \/ \E chunk \in {<<65>>, <<195, 169>>, <<195>>, <<169>>, <<226, 130, 172>>,
                     <<65, 226>>} :
           ReadTerminalChunk(1, chunk)
    \/ \E returncode \in {0, -15} : ProcessExit(1, returncode)
    \/ ReadTerminalOutput(1)
    \/ \E op \in {"terminal_output", "wait_for_terminal_exit", "kill_terminal"} :
           TerminalCall(op, "s1", 1)
    \/ \E op \in {"wait_for_terminal_exit", "kill_terminal"} : WaitResume(op, 1)
    \/ \E returncode \in {<<>>, <<0>>, <<1>>, <<255>>, << -1 >>, << -2 >>, << -9 >>,
                          << -15 >>, << -32 >>, << -100 >>} :
           SetExitStatus(1, returncode)

OutputSpec == Init /\ [][OutputNext]_vars

\* cleanup_session and release_terminal calls that overlap, for the terminals
\* of two sessions.
CleanupNext ==
    \/ \E c \in 1..MaxCreates, s \in Sessions :
           CreateTerminal(c, s, <<"l", "s">>, <<>>, <<>>)
    \/ \E c \in 1..MaxCreates : CreateTerminalSpawned(c, None)
    \/ \E id \in TerminalIds : ProcessExit(id, 0)
    \/ \E id \in TerminalIds : ReadTerminalOutput(id)
    \/ \E r \in 1..MaxReleases, s \in Sessions, id \in 1..MaxCreates :
           ReleaseTerminal(r, s, id)
    \/ \E r \in 1..MaxReleases : ReleaseTerminalResume(r)
    \/ \E k \in 1..MaxCleanups, s \in Sessions : CleanupSession(k, s)
    \/ \E k \in 1..MaxCleanups : CleanupSessionResume(k)

CleanupSpec == Init /\ [][CleanupNext]_vars

-----------------------------------------------------------------------------
(* BaseAcpPersona (base_acp_persona.py) *)

\* BaseAcpPersona.__init__ for the instance p of the class cls: the first
\* instance of a class creates the tasks of the class, every instance creates
\* the task of its own session.
PersonaInit(p, cls) ==
    /\ instances[p].pc = "absent"
    /\ \A q \in 1..(p - 1) : instances[q].pc # "absent"
    /\ _subprocess_future' =
           IF _subprocess_future[cls] = None
           THEN [_subprocess_future EXCEPT ![cls] = "pending"]
           ELSE _subprocess_future
    /\ _client_future' =
           IF _client_future[cls] = None
           THEN [_client_future EXCEPT ![cls] = "pending"]
           ELSE _client_future
    /\ instances' = [instances EXCEPT
           ![p] = [class |-> cls, pc |-> "active", session |-> "pending"]]
    /\ last' = [op |-> "__init__", persona |-> p, class |-> cls]
    /\ UNCHANGED <<clientVars, terminalVars, agent_subprocess, client>>

\* The task _init_agent_subprocess of a class: create_subprocess_exec spawns
\* the agent, or raises.
InitAgentSubprocess(cls) ==
    /\ _subprocess_future[cls] = "pending"
    /\ \E outcome \in {"done", "failed"} :
           /\ _subprocess_future' = [_subprocess_future EXCEPT ![cls] = outcome]
           /\ agent_subprocess' =
                  IF outcome = "done"
                  THEN [agent_subprocess EXCEPT
                            ![cls] = [spawned |-> @.spawned + 1, state |-> "running"]]
                  ELSE agent_subprocess
    /\ last' = [op |-> "_init_agent_subprocess", class |-> cls]
    /\ UNCHANGED <<clientVars, terminalVars, _client_future, client, instances>>

\* The task _init_client of a class: it awaits the subprocess, then constructs
\* the client, whose __init__ creates the task of the connection.
InitClient(cls) ==
    /\ _client_future[cls] = "pending"
    /\ _subprocess_future[cls] \in {"done", "failed"}
    /\ _client_future' = [_client_future EXCEPT ![cls] = _subprocess_future[cls]]
    /\ client' =
           IF _subprocess_future[cls] = "done"
           THEN [client EXCEPT
                     ![cls] = [created |-> @.created + 1, connection |-> "pending"]]
           ELSE client
    /\ last' = [op |-> "_init_client", class |-> cls]
    /\ UNCHANGED <<clientVars, terminalVars, _subprocess_future, agent_subprocess, instances>>

\* JaiAcpClient._init_connection of the client of a class: the handshake with
\* the agent succeeds or raises; with a killed agent it raises.
InitClientConnection(cls) ==
    /\ client[cls].connection = "pending"
    /\ \E outcome \in {"open", "failed"} :
           /\ agent_subprocess[cls].state = "killed" => outcome = "failed"
           /\ client' = [client EXCEPT ![cls].connection = outcome]
    /\ last' = [op |-> "_init_connection", class |-> cls]
    /\ UNCHANGED <<clientVars, terminalVars, _subprocess_future, _client_future,
                   agent_subprocess, instances>>

\* The task _init_client_session of the instance p: get_client, then
\* create_session, which awaits the connection and uses it.
InitClientSession(p) ==
    LET cls == instances[p].class IN
    /\ instances[p].session = "pending"
    /\ \/ /\ _client_future[cls] = "failed"
          /\ instances' = [instances EXCEPT ![p].session = "failed"]
       \/ /\ _client_future[cls] = "done"
          /\ client[cls].connection \in {"open", "closed", "failed"}
          /\ instances' = [instances EXCEPT ![p].session =
                 IF client[cls].connection = "open" THEN "ready" ELSE "failed"]
    /\ last' = [op |-> "_init_client_session", persona |-> p, class |-> cls]
    /\ UNCHANGED <<clientVars, terminalVars, _subprocess_future, _client_future,
                   agent_subprocess, client>>

\* shutdown() of the instance p creates the task _shutdown.
Shutdown(p) ==
    /\ instances[p].pc = "active"
    /\ instances' = [instances EXCEPT ![p].pc = "shutdown"]
    /\ last' = [op |-> "shutdown", persona |-> p, class |-> instances[p].class]
    /\ UNCHANGED <<clientVars, terminalVars, _subprocess_future, _client_future,
                   agent_subprocess, client>>

\* _shutdown up to `await conn.close()`: get_client and get_connection raise
\* what their tasks raised; the connection of the class is closed.
ShutdownClose(p) ==
    LET cls == instances[p].class IN
    /\ instances[p].pc = "shutdown"
    /\ \/ /\ _client_future[cls] = "failed"
          /\ instances' = [instances EXCEPT ![p].pc = "failed"]
          /\ UNCHANGED client
       \/ /\ _client_future[cls] = "done"
          /\ client[cls].connection = "failed"
          /\ instances' = [instances EXCEPT ![p].pc = "failed"]
          /\ UNCHANGED client
       \/ /\ _client_future[cls] = "done"
          /\ client[cls].connection \in {"open", "closed"}
          /\ client' = [client EXCEPT ![cls].connection = "closed"]
          /\ instances' = [instances EXCEPT ![p].pc = "closed"]
    /\ last' = [op |-> "_shutdown", persona |-> p, class |-> cls, resumed |-> FALSE]
    /\ UNCHANGED <<clientVars, terminalVars, _subprocess_future, _client_future,
                   agent_subprocess>>

\* _shutdown after `await conn.close()`: the subprocess of the class is
\* killed; ProcessLookupError, of a process that is gone, is swallowed.
ShutdownKill(p) ==
    LET cls == instances[p].class IN
    /\ instances[p].pc = "closed"
    /\ agent_subprocess' = [agent_subprocess EXCEPT ![cls].state = "killed"]
    /\ instances' = [instances EXCEPT ![p].pc = "down"]
    /\ last' = [op |-> "_shutdown", persona |-> p, class |-> cls, resumed |-> TRUE]
    /\ UNCHANGED <<clientVars, terminalVars, _subprocess_future, _client_future, client>>

PersonaNext ==
    \/ \E p \in Instances, cls \in AgentClasses : PersonaInit(p, cls)
    \/ \E cls \in AgentClasses : InitAgentSubprocess(cls)
    \/ \E cls \in AgentClasses : InitClient(cls)
    \/ \E cls \in AgentClasses : InitClientConnection(cls)
    \/ \E p \in Instances : InitClientSession(p)
    \/ \E p \in Instances : Shutdown(p)
    \/ \E p \in Instances : ShutdownClose(p)
    \/ \E p \in Instances : ShutdownKill(p)

PersonaSpec == Init /\ [][PersonaNext]_vars

-----------------------------------------------------------------------------
(* Properties of the turn *)

\* The calls that hold the lock of session s: between its acquisition and the exit.
InTurn(s) == {c \in PromptCalls : calls[c].pc = "prompt" /\ calls[c].session_id = s}

\* The calls that queue for the lock of session s.
Queued(s) == {c \in PromptCalls : calls[c].pc = "lock" /\ calls[c].session_id = s}

TurnStarts(c) == calls[c].pc # "prompt" /\ calls'[c].pc = "prompt"
TurnExits(c) == calls[c].pc = "prompt" /\ calls'[c].pc = "done"

\* C1: at most one prompt_and_reply call per session is between the acquisition
\* of the lock and the exit; an overlapping call is queued for the lock, not
\* rejected; and a call acquires the lock and resets the session state only in a
\* step before which no other call of the session was in its turn.
C1_TurnsAreSerialized ==
    /\ [](\A s \in Sessions :
            /\ Cardinality(InTurn(s)) <= 1
            /\ locked[s] <=> InTurn(s) # {}
            /\ Queued(s) = {waiters[s][k] : k \in 1..Len(waiters[s])})
    /\ [][\A c \in PromptCalls :
            /\ TurnStarts(c) =>
                  /\ InTurn(calls'[c].session_id) = {}
                  /\ sessions'[calls'[c].session_id] = SessionState
            /\ (calls[c].pc = "idle" /\ InTurn(calls'[c].session_id) # {}) =>
                  /\ calls'[c].pc \in {"idle", "lock"}
                  /\ sessions' = sessions]_vars

\* Two overlapping calls on one session: one in its turn, one queued, and the
\* session holds state that the queued call's reset will clear.
C1_Witness ==
    \E s \in Sessions :
        /\ InTurn(s) # {}
        /\ Queued(s) # {}
        /\ sessions[s] # NoSession
        /\ sessions[s].message_id # 0

-----------------------------------------------------------------------------
(* Properties of the permission flow *)

KeyOf(i) == <<requests[i].session_id, requests[i].tool_call_id>>

\* The request whose future is not done and registered under a key of session s.
Outstanding(s) ==
    {i \in Requests : \E key \in Keys :
        key[1] = s /\ pending[key] = i /\ ~futures[i].done}

\* The id of the first offered option whose description contains "reject",
\* else "reject_once".
RejectOptionOf(options) ==
    LET hits == {k \in 1..Len(options) : Contains(reject, options[k].description)}
    IN IF hits = {} THEN "reject_once"
       ELSE options[CHOOSE k \in hits : \A j \in hits : k <= j].option_id

\* prompt_and_reply is started in this step, for session s.
PromptStarts(s) ==
    \E c \in PromptCalls :
        calls[c].pc = "idle" /\ calls'[c].pc # "idle" /\ calls'[c].session_id = s

\* C2: in the step that starts prompt_and_reply on a session, every outstanding
\* permission request of the session has its future completed with the reject
\* option of its offer and its key removed from the pending table; the session
\* state is reset and the prompt sent in that step or a later one, never before.
C2_AutoReject ==
    [][\A s \in Sessions : PromptStarts(s) =>
          /\ \A i \in Outstanding(s) :
                /\ futures'[i] = [done |-> TRUE,
                                  result |-> RejectOptionOf(requests[i].options)]
                /\ pending'[KeyOf(i)] = 0
          /\ \A key \in Keys : key[1] = s => pending'[key] = 0
          /\ last'.ret = Cardinality(Outstanding(s))]_vars

\* A prompt_and_reply has just auto-rejected a suspended request whose offer
\* holds a reject option after an allow option.
C2_Witness ==
    /\ last.op = "reject_all_pending"
    /\ last.ret = 1
    /\ \E i \in Requests :
          /\ requests[i].pc = "suspended"
          /\ requests[i].session_id = last.session_id
          /\ futures[i] = [done |-> TRUE, result |-> "never"]
          /\ pending[KeyOf(i)] = 0

\* C3: a suspended request_permission call returns once resolve_permission was
\* called with its key or prompt_and_reply was started for its session.
C3_SuspendedEventuallyReturns ==
    \A i \in Requests :
        (requests[i].pc = "suspended" /\ requests[i].notified)
            ~> (requests[i].pc = "returned")

\* C4: resolve_permission returns true exactly when a request is registered under
\* the key and its future is not done, and then completes that future with the
\* option; for an unknown key, a resolved request or an auto-rejected one it
\* returns false and changes nothing; a future that is done keeps its result.
C4_ResolveOnce ==
    [][/\ last'.op = "resolve_permission" =>
            LET i == pending[<<last'.session_id, last'.tool_call_id>>]
            IN /\ last'.ret \in BOOLEAN
               /\ last'.ret <=> (i # 0 /\ ~futures[i].done)
               /\ last'.ret =>
                     futures' = [futures EXCEPT ![i] =
                                    [done |-> TRUE, result |-> last'.option_id]]
               /\ ~last'.ret => futures' = futures
               /\ <<pending, sessions, objs, msgs, isWriting, calls>>' =
                     <<pending, sessions, objs, msgs, isWriting, calls>>
       /\ \A i \in Requests :
             futures[i].done /\ requests'[i].pc # "idle" => futures'[i] = futures[i]]_vars

\* resolve_permission has just returned false for a request that an earlier
\* call resolved and that has not resumed yet.
C4_Witness ==
    /\ last.op = "resolve_permission"
    /\ ~last.ret
    /\ \E i \in Requests :
          /\ KeyOf(i) = <<last.session_id, last.tool_call_id>>
          /\ last.option_id # futures[i].result
          /\ requests[i].pc = "suspended"
          /\ pending[KeyOf(i)] = i
          /\ futures[i].done
          /\ futures[i].result \in OptionIds

\* C5: at most one request_permission call is suspended per key, and the future
\* a suspended call waits for is done or is the one registered under its key, so
\* that resolve or reject_all_pending can complete it.
C5_NoLeakedWaiter ==
    /\ \A i, j \in Requests :
          requests[i].pc = "suspended" /\ requests[j].pc = "suspended"
              /\ ~futures[i].done /\ ~futures[j].done /\ KeyOf(i) = KeyOf(j) => i = j
    /\ \A i \in Requests :
          requests[i].pc = "suspended" /\ ~futures[i].done => pending[KeyOf(i)] = i

C7_RequestWithoutRecordSuspends ==
    \A i \in Requests : requests[i].pc # "failed"

-----------------------------------------------------------------------------
(* Properties of the turn's transient state *)

\* C8 as stated: for every prompt_and_reply call, isWriting is set when the turn
\* starts and is false when the call exits, whichever way it exits.
C8_IsWritingFalseOnEveryExit ==
    [][\A c \in PromptCalls :
          /\ TurnStarts(c) => isWriting'[calls'[c].session_id] = True
          /\ (calls[c].pc \in {"lock", "prompt"} /\ calls'[c].pc = "done") =>
                isWriting'[calls[c].session_id] = False]_vars

\* C8: isWriting is set to true when a call's turn starts, it stays set while the
\* turn lasts, and it is false when the turn exits by a return, by an exception
\* of the prompt RPC or of the post-processing, or by cancellation; a call that
\* is cancelled while it queues for the lock leaves the field as it is.
C8_IsWritingScopedToTurn ==
    /\ [](\A s \in Sessions : InTurn(s) # {} => isWriting[s] \notin {Unset, False})
    /\ [][\A c \in PromptCalls :
            /\ TurnStarts(c) => isWriting'[calls'[c].session_id] = True
            /\ TurnExits(c) =>
                  /\ isWriting'[calls[c].session_id] = False
                  /\ last'.op = "prompt_and_reply"
                  /\ last'.outcome \in {"returned", "failed", "cancelled"}
            /\ (calls[c].pc = "lock" /\ calls'[c].pc = "done") =>
                  isWriting' = isWriting]_vars

\* A turn that created its message, so that isWriting held the message id, was
\* cancelled, and the field is false.
C8_Witness ==
    /\ last.op = "prompt_and_reply"
    /\ last.turn
    /\ last.outcome = "cancelled"
    /\ isWriting[last.session_id] = False
    /\ get_message_id(sessions, last.session_id) # 0

\* C9: in every state the session manager reaches, reset leaves the session with
\* an empty serialization and no message id; and the step in which a call
\* acquires the lock, which precedes the prompt RPC, leaves its session so.
C9_ResetClearsTransientState ==
    /\ [](\A s \in Sessions :
            /\ serialize(reset(sessions, s), objs, s) = <<>>
            /\ get_message_id(reset(sessions, s), s) = 0)
    /\ [][\A c \in PromptCalls :
            TurnStarts(c) =>
                /\ serialize(sessions', objs', calls'[c].session_id) = <<>>
                /\ get_message_id(sessions', calls'[c].session_id) = 0
                /\ calls[c].sent = <<>>
                /\ calls'[c].sent # <<>>]_vars

\* A turn has just started in a session whose chat holds a message of tool calls
\* from before the reset.
C9_Witness ==
    \E c \in PromptCalls :
        /\ calls[c].pc = "prompt"
        /\ sessions[calls[c].session_id] = SessionState
        /\ \E k \in 1..Len(msgs[calls[c].session_id]) :
              /\ msgs[calls[c].session_id][k].metadata # NoMetadata
              /\ msgs[calls[c].session_id][k].metadata.tool_calls # <<>>

\* C10: the prompt RPC carries the text block of the prompt followed by one
\* resource block per attachment, in order, with the attachment's path as uri
\* and the path's final component as name.
C10_PromptCarriesAttachments ==
    \A c \in PromptCalls :
        calls[c].pc = "prompt" =>
            /\ Len(calls[c].sent) = 1 + Len(calls[c].attachments)
            /\ calls[c].sent[1] = [type |-> "text", text |-> calls[c].prompt]
            /\ \A k \in 1..Len(calls[c].attachments) :
                  /\ calls[c].sent[k + 1].uri = calls[c].attachments[k].value
                  /\ calls[c].sent[k + 1].name =
                        AfterLastSlash(calls[c].attachments[k].value)

-----------------------------------------------------------------------------
(* Properties of the post-processing of the turn's message *)

\* C11: when a turn returns and a message was created during it, find_mentions
\* is triggered once on that message and on no other, in the step in which the
\* prompt response arrives; when the turn fails or is cancelled, or no message
\* was created during it, it is triggered on no message; and no message has it
\* triggered more than once.
C11_MentionsOncePerSuccessfulTurn ==
    /\ [](\A s \in Sessions : \A k \in 1..Len(msgs[s]) : msgs[s][k].mentions <= 1)
    /\ [][\A c \in PromptCalls :
            (calls[c].pc \in {"lock", "prompt"} /\ calls'[c].pc = "done") =>
                LET s == calls[c].session_id
                    message_id == get_message_id(sessions, s)
                IN IF calls[c].pc = "prompt" /\ last'.outcome = "returned"
                      /\ message_id # 0
                   THEN msgs' = [msgs EXCEPT ![s][message_id].mentions = @ + 1]
                   ELSE msgs' = msgs]_vars

\* A turn during which text was streamed into a message has just returned, and
\* find_mentions was triggered on that message.
C11_Witness ==
    /\ last.op = "prompt_and_reply"
    /\ last.outcome = "returned"
    /\ LET message_id == get_message_id(sessions, last.session_id)
       IN /\ message_id # 0
          /\ msgs[last.session_id][message_id].body # <<>>
          /\ msgs[last.session_id][message_id].mentions = 1

-----------------------------------------------------------------------------
(* Properties of the tool-call records *)

\* The record that session s holds for tool call t, NoObj when it holds none.
RecordOf(ss, heap, s, t) ==
    IF ss[s] = NoSession \/ DictGet(ss[s].tool_calls, t) = 0
    THEN NoObj
    ELSE heap[DictGet(ss[s].tool_calls, t)]

\* The session state of s is replaced in this step.
Resets(s) == \E c \in PromptCalls : TurnStarts(c) /\ calls'[c].session_id = s

\* C12: in a step that does not reset the session, the record of a tool call
\* does not go from status completed to in_progress, and its permission_status
\* does not go from pending or resolved to absent.
C12_StatusMonotonic ==
    [][\A s \in Sessions, t \in ToolCallIds :
          LET old == RecordOf(sessions, objs, s, t)
              new == RecordOf(sessions', objs', s, t)
          IN (~Resets(s) /\ old # NoObj /\ new # NoObj) =>
                /\ old.status = "completed" => new.status # "in_progress"
                /\ old.permission_status \in {"pending", "resolved"} =>
                      new.permission_status # None]_vars

\* The ids that session s holds a record for.
RecordIds(ss, s) ==
    IF ss[s] = NoSession THEN {}
    ELSE {ss[s].tool_calls[k][1] : k \in 1..Len(ss[s].tool_calls)}

\* session_update handles in this step an update of this type for a session that
\* has a persona.
Handles(type) ==
    /\ last'.op = "session_update"
    /\ last'.type = type
    /\ last'.session_id \in personas

\* C13: a tool-call start for an id leaves the session with a record for that id,
\* inserted or put in the place of the record the id had, whose status is
\* in_progress, whose kind and locations are those of the event (none when the
\* event's are empty) and which has no raw_output; the other records stay.
C13_StartInsertsOrReplaces ==
    [][Handles("tool_call") =>
          LET s == last'.session_id
              t == last'.tool_call_id
              u == last'.update
              new == RecordOf(sessions', objs', s, t)
          IN /\ RecordIds(sessions', s) = RecordIds(sessions, s) \cup {t}
             /\ new # NoObj
             /\ new.tool_call_id = t
             /\ new.status = "in_progress"
             /\ new.kind = (IF u.kind = "" THEN None ELSE u.kind)
             /\ new.locations = (IF u.locations = <<>> THEN NoneL ELSE u.locations)
             /\ new.raw_output = None
             /\ \A o \in RecordIds(sessions, s) \ {t} :
                   RecordOf(sessions', objs', s, o) = RecordOf(sessions, objs, s, o)]_vars

\* A start event has just replaced the record that an earlier event created for
\* t1: the new instance is not the first one allocated.
C13_Witness ==
    /\ last.op = "session_update"
    /\ last.type = "tool_call"
    /\ last.session_id = "s1"
    /\ last.tool_call_id = "t1"
    /\ last.update.kind = "edit"
    /\ RecordIds(sessions, "s1") = {"t1"}
    /\ DictGet(sessions["s1"].tool_calls, "t1") = 2
    /\ RecordOf(sessions, objs, "s1", "t1").status = "in_progress"

\* C14: a tool-call progress event for an id that has a record leaves every field
\* whose argument is null or empty (title, kind, status, raw_output, locations)
\* as it was; for an id that has no record it creates one, whose status is
\* in_progress when the event supplies none.
C14_ProgressPartialUpdate ==
    [][Handles("tool_call_update") =>
          LET s == last'.session_id
              t == last'.tool_call_id
              u == last'.update
              old == RecordOf(sessions, objs, s, t)
              new == RecordOf(sessions', objs', s, t)
          IN /\ new # NoObj
             /\ old = NoObj =>
                   new.status = (IF u.status \in {None, ""} THEN "in_progress"
                                 ELSE u.status)
             /\ old # NoObj =>
                   /\ u.title \in {NoneS, <<>>} => new.title = old.title
                   /\ u.kind \in {None, ""} => new.kind = old.kind
                   /\ u.status \in {None, ""} => new.status = old.status
                   /\ u.raw_output \in {None, ""} => new.raw_output = old.raw_output
                   /\ u.locations \in {NoneL, <<>>} => new.locations = old.locations]_vars

\* C15: the title stored by a tool-call start is, for a non-empty agent title,
\* its whitespace-separated tokens joined by single spaces, each token that
\* starts with "/" and holds another "/" replaced by what follows its last "/";
\* for an empty title, the verb of the kind table (Working for any other kind)
\* followed by a space and what follows the last "/" of the first location, or
\* by "..." when the event has no location.
C15_StartTitle ==
    [][Handles("tool_call") =>
          LET u == last'.update
              new == RecordOf(sessions', objs', last'.session_id, last'.tool_call_id)
              Final(w) ==
                  LET at == {j \in 1..Len(w) : w[j] = "/"}
                      k == IF at = {} THEN 0 ELSE CHOOSE j \in at : \A i \in at : i <= j
                  IN SubSeq(w, k + 1, Len(w))
              Token(w) ==
                  IF w[1] = "/" /\ \E j \in 2..Len(w) : w[j] = "/" THEN Final(w) ELSE w
              Verb ==
                  [k \in Kinds |->
                      CASE k = "read" -> <<"R", "e", "a", "d", "i", "n", "g">>
                        [] k = "edit" -> <<"E", "d", "i", "t", "i", "n", "g">>
                        [] k = "delete" -> <<"D", "e", "l", "e", "t", "i", "n", "g">>
                        [] k = "move" -> <<"M", "o", "v", "i", "n", "g">>
                        [] k = "search" -> <<"S", "e", "a", "r", "c", "h", "i", "n", "g">>
                        [] k = "execute" -> <<"R", "u", "n", "n", "i", "n", "g", " ",
                                              "c", "o", "m", "m", "a", "n", "d">>
                        [] k = "think" -> <<"T", "h", "i", "n", "k", "i", "n", "g">>
                        [] k = "fetch" -> <<"F", "e", "t", "c", "h", "i", "n", "g">>
                        [] k = "switch_mode" -> <<"S", "w", "i", "t", "c", "h", "i", "n", "g",
                                                  " ", "m", "o", "d", "e">>
                        [] OTHER -> <<"W", "o", "r", "k", "i", "n", "g">>]
              words == Split(u.title)
          IN IF u.title # <<>>
             THEN new.title = Join([i \in 1..Len(words) |-> Token(words[i])])
             ELSE IF u.locations # <<>>
                  THEN new.title = Verb[u.kind] \o <<" ">> \o Final(u.locations[1])
                  ELSE new.title = Verb[u.kind] \o <<".", ".", ".">>]_vars

\* A start without a title, of kind read and located at /x/f, has just stored
\* the title "Reading f".
C15_Witness ==
    /\ last.op = "session_update"
    /\ last.type = "tool_call"
    /\ last.session_id \in personas
    /\ last.update = [title |-> <<>>, kind |-> "read", locations |-> <<x_f>>]
    /\ RecordOf(sessions, objs, "s1", "t1").title =
          <<"R", "e", "a", "d", "i", "n", "g", " ", "f">>

-----------------------------------------------------------------------------
(* Properties of the turn's message *)

\* C16: between two resets of a session at most one message is added to the
\* chat: a step that does not reset the session adds a message only when the
\* session has none and makes it the session's message, and otherwise keeps the
\* session's message; it writes to no other message; and the metadata of the
\* session's message is the serialized list of the session's tool calls.
C16_OneMessagePerTurn ==
    /\ [](\A s \in Sessions :
            LET message_id == get_message_id(sessions, s)
            IN message_id # 0 =>
                  /\ message_id \in 1..Len(msgs[s])
                  /\ msgs[s][message_id].metadata =
                        [tool_calls |-> serialize(sessions, objs, s)])
    /\ [][\A s \in Sessions :
            LET old == get_message_id(sessions, s)
                new == get_message_id(sessions', s)
            IN /\ ~Resets(s) =>
                     IF old # 0
                     THEN new = old /\ Len(msgs'[s]) = Len(msgs[s])
                     ELSE \/ new = 0 /\ Len(msgs'[s]) = Len(msgs[s])
                          \/ new = Len(msgs[s]) + 1 /\ Len(msgs'[s]) = Len(msgs[s]) + 1
               /\ \A k \in 1..Len(msgs[s]) :
                     k # new => msgs'[s][k] = msgs[s][k]]_vars

\* A tool-call event and a chunk of text reached the session in one turn, and
\* its chat holds one message, with the text and the tool call.
C16_Witness ==
    \E s \in Sessions :
        /\ InTurn(s) # {}
        /\ updates = 2
        /\ Len(msgs[s]) = 1
        /\ get_message_id(sessions, s) = 1
        /\ msgs[s][1].body # <<>>
        /\ msgs[s][1].metadata # NoMetadata
        /\ msgs[s][1].metadata.tool_calls # <<>>

-----------------------------------------------------------------------------
(* Properties of session_update *)

\* C17: session_update for a session that has no persona returns without
\* raising and changes no tool-call record, message id, chat message, awareness
\* field or slash-command list of any session, whatever the update is.
C17_NoPersonaNoEffect ==
    [][(last'.op = "session_update" /\ last'.session_id \notin personas) =>
          /\ "raised" \notin DOMAIN last'
          /\ <<sessions, objs, msgs, isWriting, commands, pending, futures, personas>>' =
                <<sessions, objs, msgs, isWriting, commands, pending, futures, personas>>]_vars

\* A tool-call start has just been dropped for s2, which has no persona, while
\* s1 has one and holds a message.
C17_Witness ==
    /\ last.op = "session_update"
    /\ last.type = "tool_call"
    /\ last.session_id = "s2"
    /\ personas = {"s1"}
    /\ sessions["s2"] = NoSession
    /\ Len(msgs["s1"]) = 1

\* C18: after an available-commands update for a session that has a persona,
\* the persona's slash-command list is the list of the update, whatever it is.
C18_CommandsReplaced ==
    [][Handles("available_commands_update") =>
          commands'[last'.session_id] = last'.update]_vars

-----------------------------------------------------------------------------
(* Properties of the terminals *)

\* C19: whatever the interleaving of create_terminal and release_terminal calls,
\* the manager never tracks more than MAX_TERMINALS terminals, and a
\* create_terminal call made while it tracks MAX_TERMINALS terminals raises
\* invalid_request.
C19_TerminalCap ==
    /\ [](Cardinality({id \in TerminalIds : terminals[id] # None}) <= MAX_TERMINALS)
    /\ [][(/\ last'.op = "create_terminal"
           /\ ~last'.resumed
           /\ Cardinality({id \in TerminalIds : terminals[id] # None}) = MAX_TERMINALS)
          => last'.raised = "invalid_request"]_vars

\* C20: when a release_terminal call returns, the terminal is no longer in
\* _terminals, its process has exited and its reader task is done; this stays
\* so, and every terminal_output, wait_for_terminal_exit, kill_terminal or
\* release_terminal call made for that terminal id afterwards raises
\* resource_not_found.
C20_ReleasedIsGone ==
    /\ [](\A id \in TerminalIds :
              processes[id] # "none" /\ terminals[id] = None
              => processes[id] = "exited" /\ tasks[id] \in {"done", "cancelled"})
    /\ [][\A id \in TerminalIds :
              /\ (last'.op = "release_terminal" /\ last'.returned
                  /\ last'.terminal_id = id)
                 => processes'[id] # "none" /\ terminals'[id] = None
              /\ processes[id] # "none" /\ terminals[id] = None
                 => /\ terminals'[id] = None
                    /\ (/\ last'.op \in {"terminal_output", "wait_for_terminal_exit",
                                         "kill_terminal", "release_terminal"}
                        /\ ~last'.resumed
                        /\ last'.terminal_id = id)
                       => last'.raised = "resource_not_found"]_vars

\* A terminal whose command was running was released, which killed the process
\* and cancelled the reader task, and a kill_terminal call made for it afterwards
\* was refused.
C20_Witness ==
    /\ last.op = "kill_terminal"
    /\ last.raised = "resource_not_found"
    /\ processes[last.terminal_id] = "exited"
    /\ tasks[last.terminal_id] = "cancelled"
    /\ terminals[last.terminal_id] = None

\* C21: a terminal_output, wait_for_terminal_exit, kill_terminal or
\* release_terminal call for a terminal that another session owns raises
\* invalid_request, one for a terminal id that is not tracked raises
\* resource_not_found, and either call leaves the entry, the process, its
\* return code, the reader task and the info (buffer, exit status) of every
\* terminal as they were.
C21_ForeignOrUnknownTerminal ==
    [][(/\ last'.op \in {"terminal_output", "wait_for_terminal_exit",
                         "kill_terminal", "release_terminal"}
        /\ ~last'.resumed
        /\ terminals[last'.terminal_id] # last'.session_id)
       => /\ last'.raised = IF terminals[last'.terminal_id] = None
                            THEN "resource_not_found" ELSE "invalid_request"
          /\ ~last'.returned
          /\ UNCHANGED <<terminals, processes, returncodes, tasks, infos, waiting>>]_vars

\* Session s2 asked to kill a terminal of session s1 whose command runs, and
\* was refused; the command still runs.
C21_Witness ==
    /\ last.op = "kill_terminal"
    /\ last.raised = "invalid_request"
    /\ last.session_id = "s2"
    /\ terminals[last.terminal_id] = "s1"
    /\ processes[last.terminal_id] = "running"

\* C22: a create_terminal, terminal_output, wait_for_terminal_exit,
\* kill_terminal or release_terminal call returns or raises one of the protocol
\* errors invalid_params, resource_not_found, invalid_request and
\* internal_error, however the calls for one terminal overlap.  The methods of
\* JaiAcpClient forward to the manager and let what it raises through.
C22_OnlyProtocolErrors ==
    last.op \in {"create_terminal", "terminal_output", "wait_for_terminal_exit",
                 "kill_terminal", "release_terminal"}
    => last.raised \in {None, "invalid_params", "resource_not_found",
                        "invalid_request", "internal_error"}

\* C23: a cleanup_session call never raises; while it runs it removes and kills
\* no terminal of another session; and when it returns, none of the terminals
\* that its session owned when it was called is tracked any more, whatever
\* release_terminal calls of its loop have failed.
C23_CleanupReleasesOwnTerminals ==
    [][last'.op = "cleanup_session"
       => /\ last'.raised = None
          /\ \A id \in TerminalIds :
                 terminals[id] \notin {None, last'.session_id}
                 => /\ terminals'[id] = terminals[id]
                    /\ processes'[id] = processes[id]
                    /\ tasks'[id] = tasks[id]
          /\ last'.returned
             => \A i \in 1..Len(last'.terminal_ids) :
                    /\ terminals'[last'.terminal_ids[i]] = None
                    /\ processes'[last'.terminal_ids[i]] = "exited"
                    /\ tasks'[last'.terminal_ids[i]] \in {"done", "cancelled"}]_vars

\* A cleanup_session call for a session with two terminals has returned after
\* one release_terminal call of its loop had failed: an overlapping
\* release_terminal call had deleted the terminal under it.
C23_Witness ==
    /\ last.op = "cleanup_session"
    /\ last.returned
    /\ last.terminal_ids = <<1, 2>>
    /\ \E k \in 1..MaxCleanups : cleanups[k].pc = "done" /\ cleanups[k].logged = 1
    /\ terminals[2] = None

\* C24: a create_terminal call whose environment names a denied variable, in
\* any letter case, raises invalid_params in every state of the manager; it
\* spawns no process and adds no terminal.  The environments of EnvInputs other
\* than the empty one and the one of MY_VAR name a denied variable.
C24_DeniedEnvInvalidParams ==
    [][(/\ last'.op = "create_terminal"
        /\ ~last'.resumed
        /\ last'.env \notin {<<>>, <<<<"M", "Y", "_", "V", "A", "R">>>>})
       => /\ last'.raised = "invalid_params"
          /\ \A c \in 1..MaxCreates : creates'[c].pc = "spawning" => creates[c].pc = "spawning"
          /\ UNCHANGED <<terminals, processes, tasks, infos>>]_vars

\* C24, amended: such a call raises invalid_request when the manager tracks
\* MAX_TERMINALS terminals or more and invalid_params otherwise; in every state
\* it spawns no process and adds no terminal.
C24_DeniedEnvNeverSpawns ==
    [][(/\ last'.op = "create_terminal"
        /\ ~last'.resumed
        /\ last'.env \notin {<<>>, <<<<"M", "Y", "_", "V", "A", "R">>>>})
       => /\ last'.raised =
                 IF Cardinality({id \in TerminalIds : terminals[id] # None}) >= MAX_TERMINALS
                 THEN "invalid_request" ELSE "invalid_params"
          /\ \A c \in 1..MaxCreates : creates'[c].pc = "spawning" => creates[c].pc = "spawning"
          /\ UNCHANGED <<terminals, processes, tasks, infos>>]_vars

\* A create_terminal call that sets MY_VAR and Ld_Preload was refused with
\* invalid_params while the manager tracked terminals.
C24_Witness ==
    /\ last.op = "create_terminal"
    /\ ~last.resumed
    /\ last.env = <<<<"M", "Y", "_", "V", "A", "R">>, <<"L", "d", "_", "P", "r", "e", "l", "o", "a", "d">>>>
    /\ last.raised = "invalid_params"
    /\ \E id \in TerminalIds : terminals[id] # None

-----------------------------------------------------------------------------
(* Properties of the output and the exit status of a terminal *)

\* C25: whatever chunks the reader task of a terminal has read, with the limit
\* L of the terminal (L = 0 included) the buffer holds at most L bytes and is a
\* suffix of the concatenation of the chunks; truncated is true exactly when
\* the buffer is a proper suffix, a byte having been dropped; and truncated
\* never goes back to false.
C25_TailRetention ==
    /\ [](\A id \in TerminalIds :
              infos[id].output_byte_limit # <<>>
              => LET buf == infos[id].output_buffer
                 IN  /\ Len(buf) <= infos[id].output_byte_limit[1]
                     /\ Len(buf) <= Len(received[id])
                     /\ buf = SubSeq(received[id], Len(received[id]) - Len(buf) + 1,
                                     Len(received[id]))
                     /\ infos[id].truncated <=> Len(buf) < Len(received[id]))
    /\ [][\A id \in TerminalIds : infos[id].truncated => infos'[id].truncated]_vars

\* The reader task has read three bytes, "A" and a character of two bytes, with
\* a limit of 2: the buffer holds the two newest bytes and truncated is set.
C25_Witness ==
    /\ received[1] = <<65, 195, 169>>
    /\ infos[1].output_byte_limit = <<2>>
    /\ infos[1].output_buffer = <<195, 169>>
    /\ infos[1].truncated

\* C26: when the reader task trims the buffer of a terminal, the buffer does
\* not begin with a UTF-8 continuation byte afterwards and holds at most the
\* limit: it is what follows the cut, from the first byte on that is not a
\* continuation byte.
C26_TrimAtCharBoundary ==
    [][(/\ last'.op = "_read_terminal_output"
        /\ infos[last'.terminal_id].output_byte_limit # <<>>
        /\ Len(infos[last'.terminal_id].output_buffer) + Len(last'.chunk)
               > infos[last'.terminal_id].output_byte_limit[1])
       => LET limit == infos[last'.terminal_id].output_byte_limit[1]
              all == infos[last'.terminal_id].output_buffer \o last'.chunk
              buf == infos'[last'.terminal_id].output_buffer
              kept == {i \in (Len(all) - limit + 1)..Len(all) :
                           all[i] < 128 \/ all[i] > 191}
          IN  /\ Len(buf) <= limit
              /\ buf # <<>> => buf[1] < 128 \/ buf[1] > 191
              /\ IF kept = {} THEN buf = <<>>
                 ELSE \E i \in kept : /\ \A j \in kept : i <= j
                                      /\ buf = SubSeq(all, i, Len(all))]_vars

\* With a limit of 2 the reader task has read a character of two bytes and then
\* "A": the cut fell inside the character, whose second byte was dropped too.
C26_Witness ==
    /\ last.op = "_read_terminal_output"
    /\ last.chunk = <<65>>
    /\ received[1] = <<195, 169, 65>>
    /\ infos[1].output_byte_limit = <<2>>
    /\ infos[1].output_buffer = <<65>>

\* C27: _set_exit_status with a return code r >= 0 sets (exit_code, exit_signal)
\* to (r, None); with r = -N to (None, the name of signal N), or to
\* (None, "SIG<N>") when N is no signal; with None to (None, None); and a second
\* call with the same return code changes nothing.
C27_ExitStatus ==
    [][last'.op = "_set_exit_status"
       => LET r == last'.returncode
              info == infos'[last'.terminal_id]
          IN  /\ r = <<>> => info.exit_code = <<>> /\ info.exit_signal = NoneS
              /\ r \in {<<0>>, <<1>>, <<255>>}
                 => info.exit_code = r /\ info.exit_signal = NoneS
              /\ r \notin {<<>>, <<0>>, <<1>>, <<255>>} => info.exit_code = <<>>
              /\ r = << -1 >> => info.exit_signal = <<"S", "I", "G", "H", "U", "P">>
              /\ r = << -2 >> => info.exit_signal = <<"S", "I", "G", "I", "N", "T">>
              /\ r = << -9 >> => info.exit_signal = <<"S", "I", "G", "K", "I", "L", "L">>
              /\ r = << -15 >> => info.exit_signal = <<"S", "I", "G", "T", "E", "R", "M">>
              /\ r = << -32 >> => info.exit_signal = <<"S", "I", "G", "3", "2">>
              /\ r = << -100 >> => info.exit_signal = <<"S", "I", "G", "1", "0", "0">>
              /\ (last = last' => infos' = infos)
              /\ \A field \in {"output_buffer", "output_byte_limit", "truncated"} :
                     info[field] = infos[last'.terminal_id][field]]_vars

\* _set_exit_status was called with the return code -100, which is the number
\* of no signal, for a terminal whose process had exited with 0.
C27_Witness ==
    /\ last.op = "_set_exit_status"
    /\ last.returncode = << -100 >>
    /\ infos[1].exit_code = <<>>
    /\ infos[1].exit_signal = <<"S", "I", "G", "1", "0", "0">>
    /\ returncodes[1] = <<0>>

-----------------------------------------------------------------------------
(* Properties of the slash commands request *)

\* C28: a request for the slash commands of a chat that has a persona manager,
\* naming a mention name that no persona of the manager has (the manager has no
\* persona, or only personas of other names), fails with HTTP 404 and with no
\* other exception.
C28_UnknownPersonaIs404 ==
    [][(/\ last'.op = "get"
        /\ last'.chat_path # ""
        /\ last'.file_id # None
        /\ last'.persona_manager
        /\ last'.persona_mention_name # ""
        /\ last'.persona_mention_name \notin last'.mention_names)
       => last'.raised = "HTTPError" /\ last'.status_code = <<404>>]_vars

-----------------------------------------------------------------------------
(* Properties of the sessions *)

\* C29: a tool-call start, a tool-call progress or a message chunk that
\* session_update handles for a session, and the reset of a session at the start
\* of its turn, leave every other session with the tool-call records and the
\* message id it had: none is added, changed or removed.
C29_SessionsIsolated ==
    [][\A s \in Sessions :
          (\/ Resets(s)
           \/ /\ last'.op = "session_update"
              /\ last'.type \in {"tool_call", "tool_call_update", "agent_message_chunk"}
              /\ last'.session_id = s)
          => \A o \in Sessions \ {s} :
                 /\ get_message_id(sessions', o) = get_message_id(sessions, o)
                 /\ RecordIds(sessions', o) = RecordIds(sessions, o)
                 /\ \A t \in ToolCallIds :
                        RecordOf(sessions', objs', o, t) = RecordOf(sessions, objs, o, t)]_vars

\* Session s1 holds a record and a message, and session_update has just handled
\* a progress event for the tool call of the same id of session s2, whose record
\* is completed while that of s1 is not.
C29_Witness ==
    /\ last.op = "session_update"
    /\ last.type = "tool_call_update"
    /\ last.session_id = "s2"
    /\ get_message_id(sessions, "s1") # 0
    /\ get_message_id(sessions, "s2") # 0
    /\ RecordOf(sessions, objs, "s1", "t1") # NoObj
    /\ RecordOf(sessions, objs, "s2", "t1") # NoObj
    /\ RecordOf(sessions, objs, "s2", "t1").status = "completed"
    /\ RecordOf(sessions, objs, "s1", "t1").status # "completed"

-----------------------------------------------------------------------------
(* Properties of the auto-reject *)

\* C30: a permission request that a prompt_and_reply call rejects was raised
\* in a turn that is over; a request raised by the turn that holds the lock of
\* the session is not rejected by a second call that queues behind that turn.
\* Call 1 is the first call there is and takes the lock when it starts, having
\* rejected what was pending; so while its turn lasts, the outstanding requests
\* of its session were raised during that turn, and a call that starts then on
\* the session completes the future of none of them.
C30_InFlightRequestKept ==
    [][\A s \in Sessions :
          (/\ calls[1].pc = "prompt"
           /\ calls[1].session_id = s
           /\ PromptStarts(s))
          => \A i \in Outstanding(s) : futures'[i] = futures[i]]_vars

\* C30 as amended: a prompt_and_reply call rejects requests in the step that
\* starts it and in no later one.  In that step it completes the futures of
\* requests that were outstanding for its session, whether a turn of the session
\* is in flight or not, and of no other request; in the step in which a queued
\* call takes the lock no future is completed and no pending entry removed.
C30_RejectsWhenCalled ==
    [][/\ \A s \in Sessions :
             PromptStarts(s)
             => \A i \in Requests : futures'[i] # futures[i] => i \in Outstanding(s)
       /\ \A c \in PromptCalls :
             (calls[c].pc = "lock" /\ calls'[c].pc # "lock")
             => futures' = futures /\ pending' = pending]_vars

\* The second call has just started on the session whose lock the turn of the
\* first call holds: it rejected the one request outstanding, which that turn
\* had raised, and queued for the lock.
C30_Witness ==
    /\ last.op = "reject_all_pending"
    /\ last.ret = 1
    /\ calls[1].pc = "prompt"
    /\ calls[2].pc = "lock"
    /\ calls[2].session_id = calls[1].session_id
    /\ last.session_id = calls[1].session_id
    /\ \E i \in Requests :
           /\ requests[i].session_id = last.session_id
           /\ futures[i].done

-----------------------------------------------------------------------------
(* Properties of the session state and the lock *)

\* C31: the state that the tool-call manager keeps of a session, its tool-call
\* records and its message id, changes only in a step taken while a
\* prompt_and_reply call holds the lock of the session or takes it: no
\* session_update and no request_permission changes it while no turn of the
\* session is in flight.
C31_MutatedOnlyUnderLock ==
    [][\A s \in Sessions :
          (\/ sessions'[s] # sessions[s]
           \/ \E t \in ToolCallIds :
                  RecordOf(sessions', objs', s, t) # RecordOf(sessions, objs, s, t))
          => locked[s] \/ locked'[s]]_vars

\* C32: a prompt_and_reply call that waits for the lock of its session
\* eventually has it, though nobody answers a permission request, given that the
\* agent ends a turn once none of its permission requests is without an outcome.
C32_QueuedCallGetsLock ==
    \A c \in PromptCalls : (calls[c].pc = "lock") ~> (calls[c].pc # "lock")

\* C33: the step in which a prompt_and_reply call leaves its turn, because the
\* prompt returned, raised or was cancelled, leaves the lock of the session
\* free; the lock of a session is held only while a call is in its turn; and
\* when the lock is free the next call takes it: a call that starts with nobody
\* queued is in its turn at once, and the first call of the queue can take it.
C33_LockReleasedOnEveryExit ==
    /\ [](\A s \in Sessions :
              /\ locked[s] => InTurn(s) # {}
              /\ (~locked[s] /\ waiters[s] # <<>>) => ENABLED PromptAcquire(Head(waiters[s])))
    /\ [][\A c \in PromptCalls :
             /\ TurnExits(c)
                => /\ ~locked'[calls[c].session_id]
                   /\ last'.outcome \in {"returned", "failed", "cancelled"}
             /\ (/\ calls[c].pc = "idle"
                 /\ calls'[c].pc # "idle"
                 /\ ~locked[calls'[c].session_id]
                 /\ waiters[calls'[c].session_id] = <<>>)
                => /\ calls'[c].pc = "prompt"
                   /\ locked'[calls'[c].session_id]]_vars

\* The turn of a call has just ended with the cancellation of the call, the
\* lock of the session is free and another call queues for it.
C33_Witness ==
    /\ last.op = "prompt_and_reply"
    /\ last.turn
    /\ last.outcome = "cancelled"
    /\ ~locked[last.session_id]
    /\ waiters[last.session_id] # <<>>

-----------------------------------------------------------------------------
(* Properties of the permission display *)

\* C34: when a request_permission call returns, its future completed by
\* resolve_permission or by the auto-reject of a prompt_and_reply, every chat
\* message of the session's persona that displayed the tool call of the request
\* displays it with permission_status resolved and the selected option.
C34_ResolvedIsDisplayed ==
    [][\A i \in Requests :
          (/\ requests[i].pc = "suspended"
           /\ requests'[i].pc = "returned"
           /\ requests[i].persona)
          => LET s == requests[i].session_id
             IN \A m \in 1..Len(msgs[s]) :
                    msgs[s][m].metadata # NoMetadata
                    => \A k \in 1..Len(msgs[s][m].metadata.tool_calls) :
                           msgs[s][m].metadata.tool_calls[k].tool_call_id
                               = requests[i].tool_call_id
                           => LET shown == msgs'[s][m].metadata.tool_calls[k]
                              IN /\ "permission_status" \in DOMAIN shown
                                 /\ shown.permission_status = "resolved"
                                 /\ "selected_option_id" \in DOMAIN shown
                                 /\ shown.selected_option_id = futures[i].result]_vars

-----------------------------------------------------------------------------
(* Properties of the pending table *)

\* C35: reject_all_pending(s) leaves no entry of session s in the pending
\* table and completes the futures of those entries that were not done; every
\* entry of another session stays, with its future as it was; and the count
\* returned is the number of entries of s whose future was not done.
C35_RejectAllPendingFrame ==
    [][last'.op = "reject_all_pending"
       => LET s == last'.session_id
          IN /\ \A key \in Keys :
                    IF key[1] = s
                    THEN /\ pending'[key] = 0
                         /\ pending[key] # 0 => futures'[pending[key]].done
                    ELSE /\ pending'[key] = pending[key]
                         /\ pending[key] # 0
                            => futures'[pending[key]] = futures[pending[key]]
             /\ last'.ret = Cardinality({key \in Keys :
                                            /\ key[1] = s
                                            /\ pending[key] # 0
                                            /\ ~futures[pending[key]].done})]_vars

\* reject_all_pending has just rejected the one request of its session while a
\* request of the other session is pending, its future not done.
C35_Witness ==
    /\ last.op = "reject_all_pending"
    /\ last.ret = 1
    /\ \E key \in Keys :
           /\ key[1] # last.session_id
           /\ pending[key] # 0
           /\ ~futures[pending[key]].done
    /\ \E i \in Requests :
           /\ requests[i].session_id = last.session_id
           /\ futures[i].done

-----------------------------------------------------------------------------
(* Properties of the exit status of a terminal *)

\* C36: of every terminal that is tracked, exit_code and exit_signal are never
\* both set; both are None while the process runs; and exactly one of them is
\* set once the process has exited.
C36_ExitStatusExclusive ==
    \A id \in TerminalIds :
        terminals[id] # None
        => /\ ~(infos[id].exit_code # <<>> /\ infos[id].exit_signal # NoneS)
           /\ processes[id] = "running"
              => infos[id].exit_code = <<>> /\ infos[id].exit_signal = NoneS
           /\ processes[id] = "exited"
              => infos[id].exit_code # <<>> \/ infos[id].exit_signal # NoneS

\* C36 as amended: of every terminal that is tracked, exit_code and exit_signal
\* are never both set and both are None while the process runs; one that is set
\* is the one that the return code of the exited process gives; and exactly one
\* is set once the exit has been recorded: when the reader task has ended at the
\* end of the output, and when terminal_output or wait_for_terminal_exit
\* has returned the exit status, or kill_terminal has awaited the exit.
C36_ExitStatusOnceRecorded ==
    /\ [](\A id \in TerminalIds :
              terminals[id] # None
              => /\ ~(infos[id].exit_code # <<>> /\ infos[id].exit_signal # NoneS)
                 /\ processes[id] = "running"
                    => infos[id].exit_code = <<>> /\ infos[id].exit_signal = NoneS
                 /\ (infos[id].exit_code # <<>> \/ infos[id].exit_signal # NoneS)
                    => /\ processes[id] = "exited"
                       /\ returncodes[id] # <<>>
                       /\ IF returncodes[id][1] < 0
                          THEN infos[id].exit_code = <<>>
                          ELSE infos[id].exit_code = returncodes[id]
                 /\ tasks[id] = "done"
                    => infos[id].exit_code # <<>> \/ infos[id].exit_signal # NoneS)
    /\ [][(/\ last'.op \in {"terminal_output", "wait_for_terminal_exit", "kill_terminal"}
           /\ last'.returned
           /\ last'.resumed \/ last'.exit_status # <<>>)
          => LET info == infos'[last'.terminal_id]
             IN info.exit_code # <<>> \/ info.exit_signal # NoneS]_vars

\* kill_terminal has returned for a terminal whose process ran: the record
\* holds the signal and no exit code.
C36_Witness ==
    /\ last.op = "kill_terminal"
    /\ last.returned
    /\ last.resumed
    /\ terminals[last.terminal_id] # None
    /\ processes[last.terminal_id] = "exited"
    /\ infos[last.terminal_id].exit_code = <<>>
    /\ infos[last.terminal_id].exit_signal = <<"S", "I", "G", "K", "I", "L", "L">>

\* C37: terminal_output on a terminal of the session returns without
\* suspending; its response holds an exit status exactly when the process has
\* exited, and the status is the one that the return code of the process gives,
\* whether or not the reader task has recorded it in the info.
C37_OutputStatusFromReturnCode ==
    [][(last'.op = "terminal_output" /\ last'.raised = None)
       => LET id == last'.terminal_id
          IN /\ last'.returned
             /\ ~last'.resumed
             /\ processes[id] = "running" <=> last'.exit_status = <<>>
             /\ processes[id] = "exited"
                => /\ returncodes[id] \in {<<0>>, << -9 >>, << -15 >>}
                   /\ returncodes[id] = <<0>> => last'.exit_status = <<<<0>>, NoneS>>
                   /\ returncodes[id] = << -9 >>
                      => last'.exit_status = <<<<>>, <<"S", "I", "G", "K", "I", "L", "L">>>>
                   /\ returncodes[id] = << -15 >>
                      => last'.exit_status = <<<<>>, <<"S", "I", "G", "T", "E", "R", "M">>>>]_vars

\* terminal_output has returned the status of a process that a signal ended,
\* while the reader task of the terminal had not ended yet.
C37_Witness ==
    /\ last.op = "terminal_output"
    /\ last.raised = None
    /\ last.exit_status = <<<<>>, <<"S", "I", "G", "T", "E", "R", "M">>>>
    /\ tasks[last.terminal_id] = "running"
    /\ returncodes[last.terminal_id] = << -15 >>

-----------------------------------------------------------------------------
(* Properties of the pending table and the suspended calls *)

\* C38: the futures that are not done and that an entry of the pending table
\* holds are the futures on which a request_permission call is suspended: no
\* call that failed left an entry behind, and no call is suspended on a future
\* whose entry the cleanup of another call, or a later request under the same
\* key, has taken away.
C38_PendingAreTheSuspended ==
    {pending[key] : key \in {k \in Keys : pending[k] # 0 /\ ~futures[pending[k]].done}}
        = {i \in Requests : requests[i].pc = "suspended" /\ ~futures[i].done}

-----------------------------------------------------------------------------
(* Properties of the awareness field *)

\* C39: while no prompt_and_reply call is in its turn for a session, the
\* isWriting field of the session's persona is not set: it is false, or was
\* never written.
C39_IdleIsNotWriting ==
    \A s \in Sessions : InTurn(s) = {} => isWriting[s] \in {Unset, False}

-----------------------------------------------------------------------------
(* Properties of the persona classes *)

\* C40: the instances of one persona class share one agent subprocess and one
\* client, each created at most once, and while an instance of the class is
\* active (constructed, and shutdown() was not called on it) the connection of
\* the class is not closed and its subprocess is not killed.
C40_SharedUntilLastShutdown ==
    \A cls \in AgentClasses :
        /\ agent_subprocess[cls].spawned <= 1
        /\ client[cls].created <= 1
        /\ (\E p \in Instances : instances[p].class = cls /\ instances[p].pc = "active")
               => /\ client[cls].connection # "closed"
                  /\ agent_subprocess[cls].state # "killed"

====
